---------------------------- MODULE Spec2Model ----------------------------
(***************************************************************************)
(* Delta-neutral LP + perpetual hedge backtester (lpRebalHedge).           *)
(*                                                                         *)
(* Modelled: LPModule (src/src/lp/lp.py), PerpModule (src/src/perp/perp.py)*)
(* StrategyModule (src/src/strategy/strategy.py), PortfolioModule          *)
(* (src/src/portfolio/portfolio.py) and BacktestEngine.run                 *)
(* (src/src/engine/backtest_engine.py).                                    *)
(*                                                                         *)
(* Python floats are modelled as exact rationals <<n, d>> in lowest terms  *)
(* with d > 0, so every equality below is an equality of real numbers;     *)
(* floating-point rounding is outside the model.                           *)
(***************************************************************************)
EXTENDS Integers, Sequences, FiniteSets, TLC

VARIABLES
    lp_config,     \* LPConfig handed to LPModule.__init__
    lp,            \* LPModule instance fields
    perp_config,   \* PerpConfig handed to PerpModule.__init__
    perp,          \* PerpModule instance fields
    portfolio,     \* PortfolioModule instance fields
    engine,        \* BacktestEngine counters and statistics
    feed,          \* data_feed: the rows (date, close) handed to run
    run_config,    \* the other arguments of BacktestEngine.run
    run,           \* locals of BacktestEngine.run and its position (pc)
    call           \* last module-level call: [op, args, ret, n]

vars == <<lp_config, lp, perp_config, perp, portfolio, engine, feed,
          run_config, run, call>>

engine_vars == <<portfolio, engine, feed, run_config, run>>

-----------------------------------------------------------------------------
(* Exact arithmetic standing for Python float arithmetic.                   *)

RECURSIVE GCD(_, _)
GCD(a, b) == IF b = 0 THEN a ELSE GCD(b, a % b)

IAbs(x) == IF x < 0 THEN -x ELSE x

\* n/d in lowest terms, d > 0
Q(n, d) ==
    LET g == GCD(IAbs(n), d) IN <<n \div g, d \div g>>

Zero == Q(0, 1)
One == Q(1, 1)
Half == Q(1, 2)

RAdd(a, b) ==
    LET g == GCD(a[2], b[2]) IN
    Q(a[1] * (b[2] \div g) + b[1] * (a[2] \div g), (a[2] \div g) * b[2])

RNeg(a) == <<-a[1], a[2]>>

RSub(a, b) == RAdd(a, RNeg(b))

RMul(a, b) ==
    LET g1 == GCD(IAbs(a[1]), b[2])
        g2 == GCD(IAbs(b[1]), a[2])
    IN  Q((a[1] \div g1) * (b[1] \div g2), (a[2] \div g2) * (b[2] \div g1))

\* a / b for b # 0
RDiv(a, b) ==
    IF b[1] > 0 THEN RMul(a, <<b[2], b[1]>>) ELSE RMul(a, <<-b[2], -b[1]>>)

\* sign of a/b - c/d for a, c >= 0 and b, d > 0, by the continued-fraction
\* expansions (no product is formed, so large terms compare safely)
RECURSIVE CmpPos(_, _, _, _)
CmpPos(a, b, c, d) ==
    IF (a \div b) # (c \div d)
    THEN (IF (a \div b) < (c \div d) THEN -1 ELSE 1)
    ELSE IF a % b = 0 /\ c % d = 0 THEN 0
    ELSE IF a % b = 0 THEN -1
    ELSE IF c % d = 0 THEN 1
    ELSE -CmpPos(b, a % b, d, c % d)

\* sign of a - b
Cmp(a, b) ==
    IF a[1] >= 0 /\ b[1] >= 0 THEN CmpPos(a[1], a[2], b[1], b[2])
    ELSE IF a[1] < 0 /\ b[1] < 0 THEN CmpPos(-b[1], b[2], -a[1], a[2])
    ELSE IF a[1] < 0 THEN -1 ELSE 1

RLt(a, b) == Cmp(a, b) < 0
RLe(a, b) == Cmp(a, b) <= 0
RGt(a, b) == RLt(b, a)
RGe(a, b) == RLe(b, a)

\* Python abs(), min(), max() on floats
abs(a) == <<IAbs(a[1]), a[2]>>
min(a, b) == IF RLe(a, b) THEN a ELSE b
max(a, b) == IF RGe(a, b) THEN a ELSE b

\* math.sqrt, rounded down to the grid of quarters (sqrt has no exact
\* rational value in general): the largest k/4 whose square is <= q.
SqrtGrid == {Q(k, 4) : k \in 0..16}
sqrt(q) ==
    CHOOSE r \in SqrtGrid :
        /\ RLe(RMul(r, r), q)
        /\ \A s \in SqrtGrid : RLe(RMul(s, s), q) => RLe(s, r)

-----------------------------------------------------------------------------
(* LPModule                                                                 *)

\* LPModule._calculate_multiplier
_calculate_multiplier(range_width) ==
    LET lower == RSub(One, range_width)
        upper == RAdd(One, range_width)
    IN  IF RLe(lower, Zero) \/ RLe(upper, Zero) THEN Zero
        ELSE LET denominator ==
                     RSub(RSub(Q(2, 1), RDiv(One, sqrt(upper))), sqrt(lower))
             IN  IF RLe(denominator, Zero) THEN One
                 ELSE RDiv(Q(2, 1), denominator)

\* LPModule.__init__
LPModule(config, start_price) ==
    [ current_price    |-> start_price,
      position_value   |-> config.initial_capital,
      range_lower      |-> RMul(start_price, RSub(One, config.range_width)),
      range_upper      |-> RMul(start_price, RAdd(One, config.range_width)),
      multiplier       |-> _calculate_multiplier(config.range_width),
      skew             |-> Half,
      accumulated_fees |-> Zero,
      rebalance_count  |-> 0 ]

\* update_price without the two clamps: the linear skew at every price
update_price_unclamped(m, new_price) ==
    LET price_change_pct ==
            RDiv(RSub(new_price, m.current_price), m.current_price)
        base_asset_val == RMul(m.position_value, m.skew)
        quote_asset_val == RMul(m.position_value, RSub(One, m.skew))
        new_base_asset_val == RMul(base_asset_val, RAdd(One, price_change_pct))
        range_size == RSub(m.range_upper, m.range_lower)
    IN  [m EXCEPT
            !.position_value = RAdd(new_base_asset_val, quote_asset_val),
            !.current_price = new_price,
            !.skew = RSub(One, RDiv(RSub(new_price, m.range_lower), range_size))]

\* LPModule.update_price: the module after the call
update_price(m, new_price) ==
    IF RLe(m.current_price, Zero)
    THEN [m EXCEPT !.current_price = new_price]
    ELSE
    LET price_change_pct ==
            RDiv(RSub(new_price, m.current_price), m.current_price)
        base_asset_val == RMul(m.position_value, m.skew)
        quote_asset_val == RMul(m.position_value, RSub(One, m.skew))
        new_base_asset_val == RMul(base_asset_val, RAdd(One, price_change_pct))
        range_size == RSub(m.range_upper, m.range_lower)
    IN  [m EXCEPT
            !.position_value = RAdd(new_base_asset_val, quote_asset_val),
            !.current_price = new_price,
            !.skew =
                IF RLe(new_price, m.range_lower) THEN One
                ELSE IF RGe(new_price, m.range_upper) THEN Zero
                ELSE RSub(One, RDiv(RSub(new_price, m.range_lower), range_size))]

\* LPModule.collect_fee: position_value / pool_tvl raises ZeroDivisionError
collect_fee_raises(m, config) ==
    /\ RLt(m.range_lower, m.current_price)
    /\ RLt(m.current_price, m.range_upper)
    /\ config.pool_tvl = Zero

\* LPModule.collect_fee: the fee returned
hourly_fee(m, config) ==
    IF RLt(m.range_lower, m.current_price) /\ RLt(m.current_price, m.range_upper)
    THEN LET base_share == RDiv(m.position_value, config.pool_tvl)
             volume_share == RDiv(config.daily_volume, Q(24, 1))
         IN  RMul(RMul(RMul(base_share, volume_share), config.fee_tier),
                  m.multiplier)
    ELSE Zero

\* collect_fee that adds the fee to the position value only
collect_fee_value_only(m, config) ==
    IF RLt(m.range_lower, m.current_price) /\ RLt(m.current_price, m.range_upper)
    THEN [m EXCEPT !.position_value = RAdd(@, hourly_fee(m, config))]
    ELSE m

\* LPModule.collect_fee: the module after the call
collect_fee(m, config) ==
    IF RLt(m.range_lower, m.current_price) /\ RLt(m.current_price, m.range_upper)
    THEN [m EXCEPT
            !.position_value = RAdd(@, hourly_fee(m, config)),
            !.accumulated_fees = RAdd(@, hourly_fee(m, config))]
    ELSE m

\* the trigger with >= in place of >
rebalance_due_ge(m, config) ==
    RGe(abs(RSub(m.skew, Half)), config.rebalance_threshold)

\* drift > rebalance_threshold, the trigger of check_and_rebalance
rebalance_due(m, config) ==
    RGt(abs(RSub(m.skew, Half)), config.rebalance_threshold)

\* LPModule.check_and_rebalance: the RebalanceResult returned
RebalanceResult(m, config) ==
    LET drift == abs(RSub(m.skew, Half))
        swap_volume == RMul(m.position_value, drift)
    IN  IF rebalance_due(m, config)
        THEN [ is_rebalanced   |-> TRUE,
               swap_volume_usd |-> swap_volume,
               slippage_cost   |-> RMul(swap_volume, config.slippage),
               gas_cost        |-> config.gas_fee ]
        ELSE [ is_rebalanced   |-> FALSE,
               swap_volume_usd |-> Zero,
               slippage_cost   |-> Zero,
               gas_cost        |-> Zero ]

\* check_and_rebalance that charges the gas cost but not the slippage
check_and_rebalance_gas_only(m, config) ==
    LET res == RebalanceResult(m, config)
    IN  IF rebalance_due(m, config)
        THEN [m EXCEPT
                !.position_value = RSub(@, res.gas_cost),
                !.range_lower =
                    RMul(m.current_price, RSub(One, config.range_width)),
                !.range_upper =
                    RMul(m.current_price, RAdd(One, config.range_width)),
                !.skew = Half,
                !.rebalance_count = @ + 1]
        ELSE m

\* LPModule.check_and_rebalance: the module after the call
check_and_rebalance(m, config) ==
    LET res == RebalanceResult(m, config)
        total_cost == RAdd(res.slippage_cost, res.gas_cost)
    IN  IF rebalance_due(m, config)
        THEN [m EXCEPT
                !.position_value = RSub(@, total_cost),
                !.range_lower =
                    RMul(m.current_price, RSub(One, config.range_width)),
                !.range_upper =
                    RMul(m.current_price, RAdd(One, config.range_width)),
                !.skew = Half,
                !.rebalance_count = @ + 1]
        ELSE m

\* LPModule.get_eth_inventory
get_eth_inventory(m) ==
    IF RLe(m.current_price, Zero) THEN Zero
    ELSE RDiv(RMul(m.position_value, m.skew), m.current_price)

-----------------------------------------------------------------------------
(* PerpModule                                                               *)

Sides == {"LONG", "SHORT"}

\* PerpModule.__init__
PerpModule ==
    [ positions            |-> <<>>,
      current_market_price |-> Zero,
      total_trading_fees   |-> Zero,
      total_funding_pnl    |-> Zero ]

\* unrealized PnL of one position marked at price (update_market_price body)
mark(pos, price) ==
    IF pos.side = "LONG"
    THEN RMul(pos.size, RSub(price, pos.entry_price))
    ELSE RMul(pos.size, RSub(pos.entry_price, price))

\* PerpModule.update_market_price
update_market_price(pm, price) ==
    [pm EXCEPT
        !.current_market_price = price,
        !.positions =
            [s \in DOMAIN pm.positions |->
                [pm.positions[s] EXCEPT
                    !.unrealized_pnl = mark(pm.positions[s], price)]]]

\* PerpModule.get_short_position_size
get_short_position_size(pm) ==
    IF "SHORT" \in DOMAIN pm.positions THEN pm.positions["SHORT"].size ELSE Zero

\* sum of f over the open positions (the dict holds at most LONG and SHORT)
SumPositions(pm, f(_)) ==
    RAdd(IF "LONG" \in DOMAIN pm.positions
            THEN f(pm.positions["LONG"]) ELSE Zero,
         IF "SHORT" \in DOMAIN pm.positions
            THEN f(pm.positions["SHORT"]) ELSE Zero)

\* PerpModule.get_total_unrealized_pnl
get_total_unrealized_pnl(pm) ==
    LET f(pos) == pos.unrealized_pnl IN SumPositions(pm, f)

\* PerpModule.get_total_margin_used
get_total_margin_used(pm, config) ==
    LET f(pos) == RDiv(RMul(pos.size, pm.current_market_price), config.leverage)
    IN  SumPositions(pm, f)

\* open_position: trade_fee of an order of size_in_token
open_trade_fee(pm, config, size_in_token) ==
    RMul(RMul(size_in_token, pm.current_market_price), config.taker_fee)

\* open_position: the margin test that raises ValueError("MARGIN_CALL")
margin_call(pm, config, size_in_token, cex_wallet_balance) ==
    LET notional_value == RMul(size_in_token, pm.current_market_price)
        required_margin == RDiv(notional_value, config.leverage)
    IN  /\ RGt(size_in_token, Zero)
        /\ RLt(RSub(cex_wallet_balance,
                    open_trade_fee(pm, config, size_in_token)),
               required_margin)

\* open_position: the value returned when it does not raise
open_position_fee(pm, config, size_in_token) ==
    IF RLe(size_in_token, Zero) THEN Zero
    ELSE open_trade_fee(pm, config, size_in_token)

\* an average entry price that ignores the added size
new_entry_price_unweighted(pos, size_in_token, price) ==
    RDiv(RAdd(pos.entry_price, price), Q(2, 1))

\* open_position, lines 72-77: the VWAP entry price of a position that grows
\* by size_in_token at price
new_entry_price(pos, size_in_token, price) ==
    LET old_total_cost == RMul(pos.size, pos.entry_price)
        new_add_cost == RMul(size_in_token, price)
        new_total_size == RAdd(pos.size, size_in_token)
    IN  RDiv(RAdd(old_total_cost, new_add_cost), new_total_size)

\* open_position that books the trade fee before the margin test
open_position_fee_first(pm, config, side, size_in_token, cex_wallet_balance) ==
    IF RLe(size_in_token, Zero) THEN pm
    ELSE IF margin_call(pm, config, size_in_token, cex_wallet_balance)
    THEN [pm EXCEPT
            !.total_trading_fees =
                RAdd(@, open_trade_fee(pm, config, size_in_token))]
    ELSE
    LET price == pm.current_market_price
        newpos ==
            IF side \in DOMAIN pm.positions
            THEN LET pos == pm.positions[side]
                 IN  [pos EXCEPT
                        !.size = RAdd(pos.size, size_in_token),
                        !.entry_price =
                            new_entry_price(pos, size_in_token, price)]
            ELSE [ side |-> side, size |-> size_in_token,
                   entry_price |-> price, unrealized_pnl |-> Zero ]
        opened ==
            [pm EXCEPT
                !.positions =
                    [s \in DOMAIN pm.positions \cup {side} |->
                        IF s = side THEN newpos ELSE pm.positions[s]],
                !.total_trading_fees =
                    RAdd(@, open_trade_fee(pm, config, size_in_token))]
    IN  update_market_price(opened, price)

\* PerpModule.open_position: the module after the call (unchanged when it
\* returns early or raises)
open_position(pm, config, side, size_in_token, cex_wallet_balance) ==
    IF RLe(size_in_token, Zero) THEN pm
    ELSE IF margin_call(pm, config, size_in_token, cex_wallet_balance) THEN pm
    ELSE
    LET price == pm.current_market_price
        newpos ==
            IF side \in DOMAIN pm.positions
            THEN LET pos == pm.positions[side]
                 IN  [pos EXCEPT
                        !.size = RAdd(pos.size, size_in_token),
                        !.entry_price =
                            new_entry_price(pos, size_in_token, price)]
            ELSE [ side |-> side, size |-> size_in_token,
                   entry_price |-> price, unrealized_pnl |-> Zero ]
        opened ==
            [pm EXCEPT
                !.positions =
                    [s \in DOMAIN pm.positions \cup {side} |->
                        IF s = side THEN newpos ELSE pm.positions[s]],
                !.total_trading_fees =
                    RAdd(@, open_trade_fee(pm, config, size_in_token))]
    IN  update_market_price(opened, price)

\* the float-noise guard of close_partial_position: size <= 1e-9
DustInv == 1000000000
is_dust(size) == size[1] <= size[2] \div DustInv

\* close_partial_position realizing the PnL of the whole position whatever
\* the size closed
close_result_whole_size(pm, config, side, size_to_close) ==
    IF side \notin DOMAIN pm.positions
    THEN [realized_pnl |-> Zero, trade_fee |-> Zero]
    ELSE
    LET pos == pm.positions[side]
        actual_close_size == min(size_to_close, pos.size)
        price == pm.current_market_price
    IN  [ realized_pnl |->
            IF side = "LONG"
            THEN RMul(pos.size, RSub(price, pos.entry_price))
            ELSE RMul(pos.size, RSub(pos.entry_price, price)),
          trade_fee |->
            RMul(RMul(actual_close_size, price), config.taker_fee) ]

\* close_partial_position: the (realized_pnl, trade_fee) returned
close_result(pm, config, side, size_to_close) ==
    IF side \notin DOMAIN pm.positions
    THEN [realized_pnl |-> Zero, trade_fee |-> Zero]
    ELSE
    LET pos == pm.positions[side]
        actual_close_size == min(size_to_close, pos.size)
        price == pm.current_market_price
    IN  [ realized_pnl |->
            IF side = "LONG"
            THEN RMul(actual_close_size, RSub(price, pos.entry_price))
            ELSE RMul(actual_close_size, RSub(pos.entry_price, price)),
          trade_fee |->
            RMul(RMul(actual_close_size, price), config.taker_fee) ]

\* close_partial_position without the removal of a position closed in full
close_partial_position_keeps_side(pm, config, side, size_to_close) ==
    IF side \notin DOMAIN pm.positions THEN pm
    ELSE
    LET pos == pm.positions[side]
        actual_close_size == min(size_to_close, pos.size)
        left == RSub(pos.size, actual_close_size)
        fees == RAdd(pm.total_trading_fees,
                     close_result(pm, config, side, size_to_close).trade_fee)
    IN  update_market_price(
            [pm EXCEPT
                !.total_trading_fees = fees,
                !.positions[side].size = left],
            pm.current_market_price)

\* PerpModule.close_partial_position: the module after the call
close_partial_position(pm, config, side, size_to_close) ==
    IF side \notin DOMAIN pm.positions THEN pm
    ELSE
    LET pos == pm.positions[side]
        actual_close_size == min(size_to_close, pos.size)
        left == RSub(pos.size, actual_close_size)
        fees == RAdd(pm.total_trading_fees,
                     close_result(pm, config, side, size_to_close).trade_fee)
    IN  IF is_dust(left)
        THEN [pm EXCEPT
                !.total_trading_fees = fees,
                !.positions =
                    [s \in DOMAIN pm.positions \ {side} |-> pm.positions[s]]]
        ELSE update_market_price(
                [pm EXCEPT
                    !.total_trading_fees = fees,
                    !.positions[side].size = left],
                pm.current_market_price)

\* PerpModule.close_position, called by the engine and by test_perp.py but
\* absent from perp.py: a full close (reduceOrClose with closeSize = size),
\* returning the fee on the full notional
close_position_fee(pm, config, side) ==
    IF side \notin DOMAIN pm.positions THEN Zero
    ELSE close_result(pm, config, side, pm.positions[side].size).trade_fee

close_position(pm, config, side) ==
    IF side \notin DOMAIN pm.positions THEN pm
    ELSE close_partial_position(pm, config, side, pm.positions[side].size)

\* PerpModule.apply_funding: the net funding returned
\* net_funding with the sides exchanged: the short pays, the long receives
net_funding_short_pays(pm, rate) ==
    LET f(pos) ==
            LET payment ==
                    RMul(RMul(pos.size, pm.current_market_price), rate)
            IN  IF pos.side = "SHORT" THEN RNeg(payment) ELSE payment
    IN  SumPositions(pm, f)

net_funding(pm, rate) ==
    LET f(pos) ==
            LET payment ==
                    RMul(RMul(pos.size, pm.current_market_price), rate)
            IN  IF pos.side = "SHORT" THEN payment ELSE RNeg(payment)
    IN  SumPositions(pm, f)

\* PerpModule.apply_funding: the module after the call
apply_funding(pm, rate) ==
    [pm EXCEPT !.total_funding_pnl = RAdd(@, net_funding(pm, rate))]

-----------------------------------------------------------------------------
(* PortfolioModule                                                          *)

\* TransactionType members; WITHDRAWAL is used by the engine but is not a
\* member in portfolio.py
TransactionType ==
    {"REVENUE_LP_FEE", "REVENUE_FUNDING", "EXPENSE_GAS", "EXPENSE_PERP_FEE",
     "EXPENSE_SLIPPAGE", "EXPENSE_FUNDING", "DEPOSIT", "WITHDRAWAL"}

\* the keys of PortfolioModule.ledgers
LedgerKeys ==
    {"REVENUE_LP_FEE", "REVENUE_FUNDING", "EXPENSE_GAS", "EXPENSE_PERP_FEE",
     "EXPENSE_SLIPPAGE", "EXPENSE_FUNDING"}

\* PortfolioModule.__init__
PortfolioModule(initial_capital) ==
    [ initial_capital   |-> initial_capital,
      idle_cash         |-> initial_capital,
      lp_allocated_cash |-> Zero,
      ledgers           |-> [k \in LedgerKeys |-> Zero] ]

\* the value PortfolioModule.allocate_to_lp returns
allocate_to_lp_returns(pf, amount) == min(amount, pf.idle_cash)

\* allocate_to_lp moving the amount asked for, whatever the idle cash
allocate_to_lp_uncapped(pf, amount) ==
    [pf EXCEPT !.idle_cash = RSub(@, amount),
               !.lp_allocated_cash = RAdd(@, amount)]

\* PortfolioModule.allocate_to_lp
allocate_to_lp(pf, amount) ==
    LET allocation == min(amount, pf.idle_cash)
    IN  [pf EXCEPT !.idle_cash = RSub(@, allocation),
                   !.lp_allocated_cash = RAdd(@, allocation)]

\* PortfolioModule.return_from_lp
return_from_lp(pf, amount) ==
    [pf EXCEPT !.lp_allocated_cash = RSub(@, amount),
               !.idle_cash = RAdd(@, amount)]

\* PortfolioModule.record_transaction
record_transaction(pf, category, amount) ==
    IF category \in DOMAIN pf.ledgers
    THEN [pf EXCEPT !.ledgers[category] = RAdd(@, amount),
                    !.idle_cash = RAdd(@, amount)]
    ELSE pf

\* the total the books of the portfolio hold under WITHDRAWAL
total_withdrawn(pf) ==
    IF "WITHDRAWAL" \in DOMAIN pf.ledgers
    THEN RNeg(pf.ledgers["WITHDRAWAL"]) ELSE Zero

\* portfolio.cex_wallet_balance as the engine reads it: PortfolioModule
\* keeps one cash balance, idle_cash
cex_wallet_balance(pf) == pf.idle_cash

\* portfolio.cex_wallet_balance += amount, as the engine writes it
add_cex_wallet_balance(pf, amount) ==
    [pf EXCEPT !.idle_cash = RAdd(@, amount)]

\* get_net_equity without the hedge's unrealized PnL
get_net_equity_no_pnl(pf, current_lp_value, current_perp_pnl) ==
    RAdd(pf.idle_cash, current_lp_value)

\* PortfolioModule.get_net_equity
get_net_equity(pf, current_lp_value, current_perp_pnl) ==
    RAdd(RAdd(pf.idle_cash, current_lp_value), current_perp_pnl)

\* get_state that reports the cash of the portfolio of the run alongside
get_state_shared_cash(pf, timestamp, lp_val, perp_pnl) ==
    [ timestamp            |-> timestamp,
      net_equity           |-> get_net_equity(pf, lp_val, perp_pnl),
      idle_cash            |-> call.ret.portfolio.idle_cash,
      lp_value             |-> lp_val,
      perp_pnl             |-> perp_pnl,
      total_fees_collected |-> pf.ledgers["REVENUE_LP_FEE"],
      total_costs          |->
          RAdd(RAdd(abs(pf.ledgers["EXPENSE_GAS"]),
                    abs(pf.ledgers["EXPENSE_PERP_FEE"])),
               abs(pf.ledgers["EXPENSE_SLIPPAGE"])) ]

\* PortfolioModule.get_state
get_state(pf, timestamp, lp_val, perp_pnl) ==
    [ timestamp            |-> timestamp,
      net_equity           |-> get_net_equity(pf, lp_val, perp_pnl),
      idle_cash            |-> pf.idle_cash,
      lp_value             |-> lp_val,
      perp_pnl             |-> perp_pnl,
      total_fees_collected |-> pf.ledgers["REVENUE_LP_FEE"],
      total_costs          |->
          RAdd(RAdd(abs(pf.ledgers["EXPENSE_GAS"]),
                    abs(pf.ledgers["EXPENSE_PERP_FEE"])),
               abs(pf.ledgers["EXPENSE_SLIPPAGE"])) ]

-----------------------------------------------------------------------------
(* StrategyModule                                                           *)

\* populate_indicators: df['ema'] = ewm(span, adjust=False).mean() at row i
RECURSIVE ema(_, _, _)
ema(rows, i, span) ==
    IF i = 1 THEN rows[1].close
    ELSE LET alpha == Q(2, span + 1)
         IN  RAdd(RMul(alpha, rows[i].close),
                  RMul(RSub(One, alpha), ema(rows, i - 1, span)))

\* populate_indicators: df['pct_change'] = pct_change().fillna(0.0) at row i
pct_change(rows, i) ==
    IF i = 1 THEN Zero
    ELSE RSub(RDiv(rows[i].close, rows[i - 1].close), One)

\* populate_signals: np.where(close > ema, 1, -1) at row i
signal(rows, i, config) ==
    IF RGt(rows[i].close, ema(rows, i, config.ema_period)) THEN 1 ELSE -1

\* the row of the prepared frame that run hands to generate_orders
current_tick(rows, i, config) ==
    [ date       |-> rows[i].date,
      close      |-> rows[i].close,
      signal     |-> signal(rows, i, config),
      pct_change |-> pct_change(rows, i) ]

\* hysteresisBandPct: the half-widths of the dead zone around the moving
\* reference that populateIndicator is given (no field of StrategyConfig)
HysteresisBandPcts == {Q(1, 8), Q(1, 4)}

\* action_type without the step that renames a resize
order_action_never_adjust(is_flip, target_short) ==
    IF RGt(target_short, Zero) THEN "HEDGE_ON" ELSE "HEDGE_OFF"

\* generate_orders, lines 182-186: action_type
order_action(is_flip, target_short) ==
    IF ~is_flip /\ RGt(target_short, Zero) THEN "ADJUST_HEDGE"
    ELSE IF RGt(target_short, Zero) THEN "HEDGE_ON" ELSE "HEDGE_OFF"

\* generate_orders with an order already at drift_ratio = hedge_threshold
generate_orders_at_threshold(tick, config, lpm, pm) ==
    LET actual_eth == get_eth_inventory(lpm)
        current_short == get_short_position_size(pm)
        is_safety_trigger ==
            tick.signal = 1 /\ RLe(tick.pct_change, RNeg(config.safety_net_pct))
        sig == IF is_safety_trigger THEN -1 ELSE tick.signal
        target_short == IF sig = -1 THEN actual_eth ELSE Zero
        diff == abs(RSub(target_short, current_short))
        is_flip ==
            \/ target_short = Zero /\ RGt(current_short, Zero)
            \/ RGt(target_short, Zero) /\ current_short = Zero
        needs_adjustment ==
            IF is_flip THEN TRUE
            ELSE IF RGt(target_short, Zero)
                 THEN RGe(RDiv(diff, target_short), config.hedge_threshold)
                 ELSE FALSE
        action_type == order_action(is_flip, target_short)
        reason ==
            IF is_safety_trigger THEN "Safety Net Triggered"
            ELSE IF is_flip THEN "Signal Flip" ELSE "Threshold Drift"
    IN  IF needs_adjustment
        THEN << [ timestamp     |-> tick.date,
                  target_module |-> "PERP",
                  action        |-> action_type,
                  target_size   |-> target_short,
                  reason        |-> reason ] >>
        ELSE << >>

\* StrategyModule.generate_orders: the list of OrderEvent returned
generate_orders(tick, config, lpm, pm) ==
    LET actual_eth == get_eth_inventory(lpm)
        current_short == get_short_position_size(pm)
        is_safety_trigger ==
            tick.signal = 1 /\ RLe(tick.pct_change, RNeg(config.safety_net_pct))
        sig == IF is_safety_trigger THEN -1 ELSE tick.signal
        target_short == IF sig = -1 THEN actual_eth ELSE Zero
        diff == abs(RSub(target_short, current_short))
        is_flip ==
            \/ target_short = Zero /\ RGt(current_short, Zero)
            \/ RGt(target_short, Zero) /\ current_short = Zero
        needs_adjustment ==
            IF is_flip THEN TRUE
            ELSE IF RGt(target_short, Zero)
                 THEN RGt(RDiv(diff, target_short), config.hedge_threshold)
                 ELSE FALSE
        action_type == order_action(is_flip, target_short)
        reason ==
            IF is_safety_trigger THEN "Safety Net Triggered"
            ELSE IF is_flip THEN "Signal Flip" ELSE "Threshold Drift"
    IN  IF needs_adjustment
        THEN << [ timestamp     |-> tick.date,
                  target_module |-> "PERP",
                  action        |-> action_type,
                  target_size   |-> target_short,
                  reason        |-> reason ] >>
        ELSE << >>

-----------------------------------------------------------------------------
(* BacktestEngine                                                           *)

\* BacktestEngine.__init__
BacktestEngine(lpc) ==
    [ hedge_count           |-> 0,
      margin_call_events    |-> << >>,
      withdrawal_count      |-> 0,
      lp_initial_capital    |-> lpc.initial_capital,
      cross_rebalance_count |-> 0,
      total_swept_to_cex    |-> Zero,
      total_swept_to_lp     |-> Zero ]

\* BacktestEngine.get_margin_snapshot
get_margin_snapshot(pm, pc, pf) ==
    LET unrealized_pnl == get_total_unrealized_pnl(pm)
        margin_used == get_total_margin_used(pm, pc)
        wallet_balance == cex_wallet_balance(pf)
    IN  [ available |-> RSub(RAdd(wallet_balance, unrealized_pnl), margin_used),
          wallet    |-> wallet_balance,
          pnl       |-> unrealized_pnl,
          used      |-> margin_used ]

\* The objects the engine's helpers read and write, as one record
World(lpm, pm, pf, eng, events) ==
    [lp |-> lpm, perp |-> pm, portfolio |-> pf, engine |-> eng,
     events |-> events]

\* _execute_perp_order raises ValueError("MARGIN_CALL")
execute_raises(w, pc, order) ==
    /\ order.action \in {"HEDGE_ON", "ADJUST_HEDGE"}
    /\ LET diff == RSub(order.target_size, get_short_position_size(w.perp))
       IN  /\ RGt(diff, Zero)
           /\ margin_call(w.perp, pc, diff, cex_wallet_balance(w.portfolio))

\* _execute_perp_order reaches open_position, whose notional_value /
\* leverage (perp.py line 64) raises ZeroDivisionError
open_divides_by_zero(w, pc, order) ==
    /\ order.action \in {"HEDGE_ON", "ADJUST_HEDGE"}
    /\ RGt(RSub(order.target_size, get_short_position_size(w.perp)), Zero)
    /\ pc.leverage = Zero

\* diff taken as the whole target, whatever short is open
order_diff_from_zero(w, order) == order.target_size

\* _execute_perp_order, lines 202-203: diff = target_size - current_short
order_diff(w, order) ==
    RSub(order.target_size, get_short_position_size(w.perp))

\* BacktestEngine._execute_perp_order: the world after the call; when
\* open_position raises, the world is as open_position left it and the
\* statements after the call (lines 207-209) have not run
_execute_perp_order(w, pc, order) ==
    LET diff == order_diff(w, order)
    IN  IF order.action \in {"HEDGE_ON", "ADJUST_HEDGE"}
        THEN IF RGt(diff, Zero)
             THEN LET fee == open_position_fee(w.perp, pc, diff)
                  IN  IF execute_raises(w, pc, order)
                      THEN [w EXCEPT
                             !.perp = open_position(w.perp, pc, "SHORT", diff,
                                          cex_wallet_balance(w.portfolio))]
                      ELSE
                      [w EXCEPT
                        !.perp = open_position(w.perp, pc, "SHORT", diff,
                                     cex_wallet_balance(w.portfolio)),
                        !.portfolio = record_transaction(@,
                                     "EXPENSE_PERP_FEE", RNeg(fee)),
                        !.engine.hedge_count = @ + 1,
                        !.events = Append(@, <<"HEDGE_INC", order.reason>>)]
             ELSE IF RLt(diff, Zero) /\ order.action = "ADJUST_HEDGE"
             THEN LET res == close_result(w.perp, pc, "SHORT", abs(diff))
                  IN  [w EXCEPT
                        !.perp = close_partial_position(w.perp, pc, "SHORT",
                                     abs(diff)),
                        !.portfolio = record_transaction(
                                     record_transaction(@, "DEPOSIT",
                                         res.realized_pnl),
                                     "EXPENSE_PERP_FEE", RNeg(res.trade_fee)),
                        !.engine.hedge_count = @ + 1,
                        !.events = Append(@, <<"HEDGE_DEC", order.reason>>)]
             ELSE w
        ELSE IF order.action = "HEDGE_OFF" /\ "SHORT" \in DOMAIN w.perp.positions
        THEN LET realized_pnl == w.perp.positions["SHORT"].unrealized_pnl
                 fee == close_position_fee(w.perp, pc, "SHORT")
             IN  [w EXCEPT
                    !.perp = close_position(w.perp, pc, "SHORT"),
                    !.portfolio = record_transaction(
                                 record_transaction(@, "DEPOSIT", realized_pnl),
                                 "EXPENSE_PERP_FEE", RNeg(fee)),
                    !.engine.hedge_count = @ + 1,
                    !.events = Append(@, <<"HEDGE_OFF">>)]
        ELSE w

\* margin_needed as _attempt_rescue and _log_margin_failure compute it
margin_needed(w, pc, order, price) ==
    LET target_diff ==
            abs(RSub(order.target_size, get_short_position_size(w.perp)))
        notional_needed == RMul(target_diff, price)
    IN  RAdd(RDiv(notional_needed, pc.leverage),
             RMul(notional_needed, pc.taker_fee))

\* _log_margin_failure that tags the tick without keeping the audit record
_log_margin_failure_tag_only(w, pc, time, price, order) ==
    [w EXCEPT !.events = Append(@, <<"MARGIN_CALL_REJECT">>)]

\* BacktestEngine._log_margin_failure
_log_margin_failure(w, pc, time, price, order) ==
    LET snap == get_margin_snapshot(w.perp, pc, w.portfolio)
    IN  [w EXCEPT
            !.engine.margin_call_events =
                Append(@, [ timestamp        |-> time,
                            price            |-> price,
                            available_margin |-> snap.available,
                            margin_needed    |->
                                margin_needed(w, pc, order, price) ]),
            !.events = Append(@, <<"MARGIN_CALL_REJECT">>)]

\* the amounts written into _attempt_rescue
SafetyBuffer == Q(50, 1)
RescueShare == Q(8, 10)
MinTransfer == Q(10, 1)

\* actual_rescue that takes the larger of the deficit and the profit share
actual_rescue_larger(w, pc, order, price) ==
    LET snap == get_margin_snapshot(w.perp, pc, w.portfolio)
        deficit ==
            RAdd(RSub(margin_needed(w, pc, order, price), snap.available),
                 SafetyBuffer)
        current_lp_profit ==
            RSub(w.lp.position_value, w.engine.lp_initial_capital)
        max_allowed_rescue == max(Zero, RMul(current_lp_profit, RescueShare))
    IN  max(deficit, max_allowed_rescue)

\* BacktestEngine._attempt_rescue: actual_rescue before the 10.0 test
actual_rescue(w, pc, order, price) ==
    LET snap == get_margin_snapshot(w.perp, pc, w.portfolio)
        deficit ==
            RAdd(RSub(margin_needed(w, pc, order, price), snap.available),
                 SafetyBuffer)
        current_lp_profit ==
            RSub(w.lp.position_value, w.engine.lp_initial_capital)
        max_allowed_rescue == max(Zero, RMul(current_lp_profit, RescueShare))
    IN  min(deficit, max_allowed_rescue)

\* BacktestEngine._attempt_rescue: the amount returned
deficit_filled(w, pc, order, price) ==
    IF RGt(actual_rescue(w, pc, order, price), MinTransfer)
    THEN actual_rescue(w, pc, order, price) ELSE Zero

\* BacktestEngine._attempt_rescue: the world after the call
_attempt_rescue(w, pc, order, price) ==
    LET amt == actual_rescue(w, pc, order, price)
    IN  IF RGt(amt, MinTransfer)
        THEN [w EXCEPT
                !.lp.position_value = RSub(@, amt),
                !.portfolio = record_transaction(
                                  record_transaction(@, "WITHDRAWAL", RNeg(amt)),
                                  "DEPOSIT", amt)]
        ELSE w

\* _perform_capital_sweep that moves the whole gap out of the wallet
_perform_capital_sweep_uncapped(w, pc) ==
    LET snap == get_margin_snapshot(w.perp, pc, w.portfolio)
        current_lp == w.lp.position_value
        current_cex_equity == RAdd(snap.wallet, snap.pnl)
        total_eq == RAdd(current_lp, current_cex_equity)
        initial_lp == w.engine.lp_initial_capital
        initial_cex == RSub(w.portfolio.initial_capital, initial_lp)
        initial_total == RAdd(initial_lp, initial_cex)
        target_lp == RMul(total_eq, RDiv(initial_lp, initial_total))
        transfer_to_cex == RSub(current_lp, target_lp)
        actual_transfer == abs(transfer_to_cex)
    IN  IF RGt(transfer_to_cex, MinTransfer)
        THEN [w EXCEPT
                !.lp.position_value = RSub(@, transfer_to_cex),
                !.portfolio = add_cex_wallet_balance(@, transfer_to_cex),
                !.engine.total_swept_to_cex = RAdd(@, transfer_to_cex),
                !.engine.cross_rebalance_count = @ + 1,
                !.events = Append(@, <<"SWEEP_LP_TO_CEX", transfer_to_cex>>)]
        ELSE IF RLt(transfer_to_cex, RNeg(MinTransfer))
                /\ RGt(actual_transfer, MinTransfer)
        THEN [w EXCEPT
                !.portfolio = add_cex_wallet_balance(@, RNeg(actual_transfer)),
                !.lp.position_value = RAdd(@, actual_transfer),
                !.engine.total_swept_to_lp = RAdd(@, actual_transfer),
                !.engine.cross_rebalance_count = @ + 1,
                !.events = Append(@, <<"SWEEP_CEX_TO_LP", actual_transfer>>)]
        ELSE w

\* BacktestEngine._perform_capital_sweep (initial_total # 0)
_perform_capital_sweep(w, pc) ==
    LET snap == get_margin_snapshot(w.perp, pc, w.portfolio)
        current_lp == w.lp.position_value
        current_cex_equity == RAdd(snap.wallet, snap.pnl)
        total_eq == RAdd(current_lp, current_cex_equity)
        initial_lp == w.engine.lp_initial_capital
        initial_cex == RSub(w.portfolio.initial_capital, initial_lp)
        initial_total == RAdd(initial_lp, initial_cex)
        target_lp == RMul(total_eq, RDiv(initial_lp, initial_total))
        transfer_to_cex == RSub(current_lp, target_lp)
        actual_transfer == min(abs(transfer_to_cex), snap.available)
    IN  IF RGt(transfer_to_cex, MinTransfer)
        THEN [w EXCEPT
                !.lp.position_value = RSub(@, transfer_to_cex),
                !.portfolio = add_cex_wallet_balance(@, transfer_to_cex),
                !.engine.total_swept_to_cex = RAdd(@, transfer_to_cex),
                !.engine.cross_rebalance_count = @ + 1,
                !.events = Append(@, <<"SWEEP_LP_TO_CEX", transfer_to_cex>>)]
        ELSE IF RLt(transfer_to_cex, RNeg(MinTransfer))
                /\ RGt(actual_transfer, MinTransfer)
        THEN [w EXCEPT
                !.portfolio = add_cex_wallet_balance(@, RNeg(actual_transfer)),
                !.lp.position_value = RAdd(@, actual_transfer),
                !.engine.total_swept_to_lp = RAdd(@, actual_transfer),
                !.engine.cross_rebalance_count = @ + 1,
                !.events = Append(@, <<"SWEEP_CEX_TO_LP", actual_transfer>>)]
        ELSE w

-----------------------------------------------------------------------------
(* Inputs                                                                   *)

\* number of module-level calls explored from a fresh LPModule and from a
\* fresh PerpModule
MaxLPOps == 4
MaxPerpOps == 3

\* number of calls explored around one StrategyModule
MaxStrategyOps == 3

\* calls made on one PortfolioModule
MaxPortfolioOps == 3

\* rows of the feeds of the timed runs
MaxTimedTicks == 4

\* rows of the feeds of the runs with sweeps between the orders
MaxLongTicks == 3

\* close prices; the start price is 8
Prices == {Q(4, 1), Q(6, 1), Q(8, 1), Q(12, 1)}
StartPrice == Q(8, 1)

LPConfigs ==
    { [ initial_capital     |-> Q(1200, 1),
        range_width         |-> Q(1, 2),
        fee_tier            |-> Q(1, 2),
        daily_volume        |-> Q(48, 1),
        pool_tvl            |-> Q(16, 1),
        rebalance_threshold |-> th,
        gas_fee             |-> Q(2, 1),
        slippage            |-> Q(1, 4) ] : th \in {Zero, Q(1, 4), Q(3, 8)} }

\* the LPModule constructions explored: start price 8 with the range [4, 12],
\* and start price 5/2 with the range [1, 4], whose bounds and the in-range
\* price 9/4 have exact square roots (this one with a threshold of 1/2, which
\* no drift exceeds)
LPSetups ==
    { [config |-> c, start_price |-> StartPrice, prices |-> Prices]
        : c \in LPConfigs }
    \cup
    { [config |-> [c EXCEPT !.range_width = Q(3, 5),
                            !.daily_volume = Q(168, 1),
                            !.rebalance_threshold = Half],
       start_price |-> Q(5, 2),
       prices |-> {Q(1, 1), Q(9, 4), Q(4, 1)}]
        : c \in {d \in LPConfigs : d.rebalance_threshold = Q(1, 4)} }

\* degenerate constructions: a pool without total value locked, a start
\* price of 0, and prices of 0 and below
DegenerateLPSetups ==
    { [config |-> [c EXCEPT !.initial_capital = Q(600, 1), !.pool_tvl = tvl],
       start_price |-> sp,
       prices |-> {Q(-2, 1), Zero, Q(6, 1), Q(8, 1)}]
        : c \in {d \in LPConfigs : d.rebalance_threshold = Q(1, 4)},
          tvl \in {Zero, Q(16, 1)},
          sp \in {Zero, StartPrice} }

LPPrices(config) ==
    UNION {s.prices : s \in {t \in LPSetups \cup DegenerateLPSetups :
                                 t.config = config}}

PerpConfigs ==
    { [leverage |-> lev, taker_fee |-> Q(1, 16)] : lev \in {One, Q(2, 1)} }

\* order sizes, collateral and funding rates handed to PerpModule
Sizes == {Half, One, Q(2, 1)}
Wallets == {Q(4, 1), Q(10, 1), Q(40, 1)}
Rates == {Q(1, 8), Q(-1, 8)}

\* engine inputs: the number of feed rows, and two markets.  In the first the
\* close leaves the range on every move (the LP is rebalanced, the margin
\* runs short); in the second it moves inside the range (the hedge is
\* resized against an open position), once with a taker fee of 1/4 and once
\* in a pool without volume with a taker fee of 1/16 (the margin locked by
\* the hedge then caps the sweep).
MaxTicks == 2
PerpCapitals == {Q(64, 1), Q(128, 1), Q(192, 1)}
EngineSetups ==
    { [start_price |-> Q(2, 1), prices |-> {Q(2, 1), Q(4, 1)},
       pool_tvl |-> Q(16, 1), leverage |-> Q(2, 1), taker_fee |-> Q(1, 4),
       daily_volume |-> Q(48, 1)],
      [start_price |-> Q(4, 1), prices |-> {Q(3, 1), Q(4, 1)},
       pool_tvl |-> Q(128, 1), leverage |-> One, taker_fee |-> Q(1, 4),
       daily_volume |-> Q(48, 1)],
      [start_price |-> Q(4, 1), prices |-> {Q(3, 1), Q(4, 1)},
       pool_tvl |-> Q(128, 1), leverage |-> One, taker_fee |-> Q(1, 16),
       daily_volume |-> Zero] }
EngineLPConfig(s) ==
    [ initial_capital     |-> Q(192, 1),
      range_width         |-> Q(1, 2),
      fee_tier            |-> Q(1, 2),
      daily_volume        |-> s.daily_volume,
      pool_tvl            |-> s.pool_tvl,
      rebalance_threshold |-> Q(1, 4),
      gas_fee             |-> Q(2, 1),
      slippage            |-> Q(1, 4) ]
EnginePerpConfig(s) == [leverage |-> s.leverage, taker_fee |-> s.taker_fee]

\* datetime(1970, 1, 1), in minutes
Epoch == 0
\* date of the first row, and the spacings of the rows (1h and 1d), in minutes
FeedStart == 60 * 24 * 365
TickSteps == {60, 60 * 24}

Feeds(prices, step) ==
    UNION { { [i \in 1..n |->
                  [date |-> FeedStart + (i - 1) * step, close |-> f[i]]]
              : f \in [1..n -> prices] }
            : n \in 0..MaxTicks }

FundingRates == {Q(1, 4), Q(-1, 4)}
RunConfigs ==
    { [ strategy_config |->
            [ema_period |-> 3, safety_net_pct |-> Q(1, 4),
             hedge_threshold |-> Q(1, 16)],
        funding_rate |-> fr,
        withdraw_enabled |-> TRUE,
        withdraw_freq |-> 1,
        withdraw_target |-> Q(20, 1),
        cap_rebal_enabled |-> TRUE,
        cap_rebal_freq |-> 1,
        execution_interval_min |-> x ] : x \in {1, 2000}, fr \in FundingRates }

NoCall == [op |-> "init", args |-> <<>>, ret |-> <<>>, n |-> 0]

-----------------------------------------------------------------------------
(* Specification SpecLP: any sequence of calls on one LPModule              *)

\* the run that has not been called
NoRun ==
    [ pc |-> "idle", i |-> 0, history |-> << >>, current_events |-> << >>,
      last_execution_time |-> Epoch, last_funding_time |-> Epoch,
      last_cap_rebal_date |-> Epoch, last_withdrawal_date |-> Epoch,
      order |-> << >> ]

NoEngine ==
    /\ portfolio = PortfolioModule(Zero)
    /\ engine = BacktestEngine(lp_config)
    /\ feed = << >>
    /\ run_config = CHOOSE c \in RunConfigs : TRUE
    /\ run = NoRun

InitLP ==
    /\ \E s \in LPSetups :
        /\ lp_config = s.config
        /\ lp = LPModule(s.config, s.start_price)
    /\ perp_config = CHOOSE c \in PerpConfigs : TRUE
    /\ perp = PerpModule
    /\ NoEngine
    /\ call = NoCall

LPUpdatePrice ==
    /\ call.n < MaxLPOps
    /\ \E p \in LPPrices(lp_config) :
        /\ lp' = update_price(lp, p)
        /\ call' = [op |-> "update_price", args |-> <<p>>, ret |-> <<>>,
                    n |-> call.n + 1]
    /\ UNCHANGED <<lp_config, perp_config, perp, engine_vars>>

LPCollectFee ==
    /\ call.n < MaxLPOps
    /\ IF collect_fee_raises(lp, lp_config)
       THEN /\ lp' = lp
            /\ call' = [op |-> "collect_fee raised ZeroDivisionError",
                        args |-> <<>>, ret |-> <<>>, n |-> call.n + 1]
       ELSE /\ lp' = collect_fee(lp, lp_config)
            /\ call' = [op |-> "collect_fee", args |-> <<>>,
                        ret |-> hourly_fee(lp, lp_config), n |-> call.n + 1]
    /\ UNCHANGED <<lp_config, perp_config, perp, engine_vars>>

LPCheckAndRebalance ==
    /\ call.n < MaxLPOps
    /\ lp' = check_and_rebalance(lp, lp_config)
    /\ call' = [op |-> "check_and_rebalance", args |-> <<>>,
                ret |-> RebalanceResult(lp, lp_config), n |-> call.n + 1]
    /\ UNCHANGED <<lp_config, perp_config, perp, engine_vars>>

NextLP == LPUpdatePrice \/ LPCollectFee \/ LPCheckAndRebalance

SpecLP == InitLP /\ [][NextLP]_vars

-----------------------------------------------------------------------------
(* Properties of LPModule, checked under SpecLP                              *)

C7_RebalanceIffDrift ==
    [][call'.op = "check_and_rebalance" =>
        LET drift == abs(RSub(lp.skew, Half))
            rebalanced == lp'.rebalance_count = lp.rebalance_count + 1
        IN  /\ rebalanced <=> RGt(drift, lp_config.rebalance_threshold)
            /\ call'.ret.is_rebalanced <=> rebalanced
            /\ ~rebalanced =>
                  /\ call'.ret.gas_cost = Zero
                  /\ call'.ret.slippage_cost = Zero
                  /\ call'.ret.swap_volume_usd = Zero
                  /\ lp'.position_value = lp.position_value
                  /\ lp'.range_lower = lp.range_lower
                  /\ lp'.range_upper = lp.range_upper
                  /\ lp'.skew = lp.skew
                  /\ lp'.rebalance_count = lp.rebalance_count]_vars

\* a call at a drift equal to a positive threshold: no rebalance
C7_Witness ==
    /\ call.op = "check_and_rebalance"
    /\ ~call.ret.is_rebalanced
    /\ RGt(lp_config.rebalance_threshold, Zero)
    /\ abs(RSub(lp.skew, Half)) = lp_config.rebalance_threshold

\* C8: right after a check_and_rebalance that rebalanced at price p, skew is
\* 0.5, the bounds are p * (1 - range_width) and p * (1 + range_width), the
\* rebalance count rose by one and position value fell by gas cost plus
\* slippage cost, with slippage = value * |skew - 0.5| * slippage rate; a
\* second check_and_rebalance without a price update does not rebalance.
C8_RebalanceEffect ==
    [][(call'.op = "check_and_rebalance" /\ call'.ret.is_rebalanced) =>
        LET p == lp.current_price
            slip == RMul(RMul(lp.position_value, abs(RSub(lp.skew, Half))),
                         lp_config.slippage)
        IN  /\ lp'.current_price = p
            /\ lp'.skew = Half
            /\ lp'.range_lower = RMul(p, RSub(One, lp_config.range_width))
            /\ lp'.range_upper = RMul(p, RAdd(One, lp_config.range_width))
            /\ lp'.rebalance_count = lp.rebalance_count + 1
            /\ call'.ret.slippage_cost = slip
            /\ call'.ret.gas_cost = lp_config.gas_fee
            /\ lp'.position_value =
                  RSub(lp.position_value, RAdd(lp_config.gas_fee, slip))
            /\ ~RebalanceResult(lp', lp_config).is_rebalanced
            /\ check_and_rebalance(lp', lp_config) = lp']_vars

\* a second rebalance of the same position, paying slippage
C8_Witness ==
    /\ call.op = "check_and_rebalance"
    /\ call.ret.is_rebalanced
    /\ RGt(call.ret.slippage_cost, Zero)
    /\ lp.rebalance_count = 2

\* C16: collect_fee returns a positive fee only when range_lower < price <
\* range_upper (strictly), and then adds that fee to position value and to
\* accumulated fees; at or outside a bound it returns 0 and changes nothing.
C16_CollectFee ==
    [][call'.op = "collect_fee" =>
        LET inside == /\ RLt(lp.range_lower, lp.current_price)
                      /\ RLt(lp.current_price, lp.range_upper)
        IN  /\ RGt(call'.ret, Zero) => inside
            /\ inside =>
                  lp' = [lp EXCEPT
                            !.position_value = RAdd(@, call'.ret),
                            !.accumulated_fees = RAdd(@, call'.ret)]
            /\ ~inside => (call'.ret = Zero /\ lp' = lp)]_vars

\* a call at a price equal to the lower bound, after a fee had been collected
\* inside the range: nothing returned, nothing added
C16_Witness ==
    /\ call.op = "collect_fee"
    /\ call.ret = Zero
    /\ lp.current_price = lp.range_lower
    /\ RGt(lp.accumulated_fees, Zero)

\* C18: for a price p strictly inside the range update_price sets skew =
\* volatileAmt * p / value with volatileAmt = L * (sqrt(upper) - sqrt(p)) /
\* (sqrt(p) * sqrt(upper)), stableAmt = L * (sqrt(p) - sqrt(lower)) and value
\* = volatileAmt * p + stableAmt: the square-root invariant, not a linear
\* interpolation.  L cancels in the skew; it is stated where the three roots
\* are exact.
C18_SqrtInvariant ==
    [][call'.op = "update_price" =>
        LET has_root(q) == \E r \in SqrtGrid : RMul(r, r) = q
            root(q) == CHOOSE r \in SqrtGrid : RMul(r, r) = q
            p == lp'.current_price
        IN  ( /\ RLt(lp'.range_lower, p) /\ RLt(p, lp'.range_upper)
              /\ has_root(p) /\ has_root(lp'.range_lower)
              /\ has_root(lp'.range_upper) ) =>
            LET a == root(lp'.range_lower)
                b == root(p)
                c == root(lp'.range_upper)
                volatile == RDiv(RMul(RSub(c, b), b), c)
                stable == RSub(b, a)
            IN  lp'.skew = RDiv(volatile, RAdd(volatile, stable))]_vars

-----------------------------------------------------------------------------
(* Specification SpecPerp: any sequence of calls on one PerpModule          *)

InitPerp ==
    /\ perp_config \in PerpConfigs
    /\ perp = update_market_price(PerpModule, StartPrice)
    /\ lp_config = CHOOSE c \in LPConfigs : TRUE
    /\ lp = LPModule(lp_config, StartPrice)
    /\ NoEngine
    /\ call = NoCall

PerpUpdateMarketPrice ==
    /\ call.n < MaxPerpOps
    /\ \E p \in Prices :
        /\ perp' = update_market_price(perp, p)
        /\ call' = [op |-> "update_market_price", args |-> <<p>>,
                    ret |-> <<>>, n |-> call.n + 1]
    /\ UNCHANGED <<lp_config, lp, perp_config, engine_vars>>

PerpOpenPosition ==
    /\ call.n < MaxPerpOps
    /\ \E side \in Sides, size \in Sizes, wallet \in Wallets :
        /\ perp' = open_position(perp, perp_config, side, size, wallet)
        /\ call' =
            [op |-> "open_position", args |-> <<side, size, wallet>>,
             ret |-> [ raised |->
                           margin_call(perp, perp_config, size, wallet),
                       fee |->
                           IF margin_call(perp, perp_config, size, wallet)
                           THEN Zero
                           ELSE open_position_fee(perp, perp_config, size) ],
             n |-> call.n + 1]
    /\ UNCHANGED <<lp_config, lp, perp_config, engine_vars>>

PerpClosePartialPosition ==
    /\ call.n < MaxPerpOps
    /\ \E side \in Sides, size \in Sizes :
        /\ perp' = close_partial_position(perp, perp_config, side, size)
        /\ call' =
            [op |-> "close_partial_position", args |-> <<side, size>>,
             ret |-> close_result(perp, perp_config, side, size),
             n |-> call.n + 1]
    /\ UNCHANGED <<lp_config, lp, perp_config, engine_vars>>

PerpApplyFunding ==
    /\ call.n < MaxPerpOps
    /\ \E rate \in Rates :
        /\ perp' = apply_funding(perp, rate)
        /\ call' = [op |-> "apply_funding", args |-> <<rate>>,
                    ret |-> net_funding(perp, rate), n |-> call.n + 1]
    /\ UNCHANGED <<lp_config, lp, perp_config, engine_vars>>

NextPerp ==
    \/ PerpUpdateMarketPrice
    \/ PerpOpenPosition
    \/ PerpClosePartialPosition
    \/ PerpApplyFunding

SpecPerp == InitPerp /\ [][NextPerp]_vars

-----------------------------------------------------------------------------
(* Properties of PerpModule, checked under SpecPerp                          *)

\* margin locked by one position at the module's market price
margin_used_of(pm, config, side) ==
    IF side \in DOMAIN pm.positions
    THEN RDiv(RMul(pm.positions[side].size, pm.current_market_price),
              config.leverage)
    ELSE Zero

\* C5: open_position(side, addSize, collateral) with addSize > 0 raises the
\* insufficient-margin error exactly when collateral + total unrealized PnL
\* - total margin used < addSize * price / leverage + addSize * price *
\* taker_fee, and is accepted otherwise.
C5_RejectsIffAvailableShort ==
    [][call'.op = "open_position" =>
        LET addSize == call'.args[2]
            collateral == call'.args[3]
            notional == RMul(addSize, perp.current_market_price)
            available ==
                RSub(RAdd(collateral, get_total_unrealized_pnl(perp)),
                     get_total_margin_used(perp, perp_config))
            needed == RAdd(RDiv(notional, perp_config.leverage),
                           RMul(notional, perp_config.taker_fee))
        IN  call'.ret.raised <=> RLt(available, needed)]_vars

\* C9: closing a fraction f, 0 < f < 1, of an open position with
\* close_partial_position realizes f times the position's unrealized PnL,
\* charges the fee on the closed notional only, and reduces the position's
\* size and its margin used by the fraction f.
C9_PartialClose ==
    [][(/\ call'.op = "close_partial_position"
        /\ call'.args[1] \in DOMAIN perp.positions
        /\ RLt(call'.args[2], perp.positions[call'.args[1]].size)) =>
        LET side == call'.args[1]
            pos == perp.positions[side]
            f == RDiv(call'.args[2], pos.size)
            closed_notional == RMul(call'.args[2], perp.current_market_price)
        IN  /\ call'.ret.realized_pnl = RMul(f, pos.unrealized_pnl)
            /\ call'.ret.trade_fee =
                  RMul(closed_notional, perp_config.taker_fee)
            /\ perp'.total_trading_fees =
                  RAdd(perp.total_trading_fees, call'.ret.trade_fee)
            /\ side \in DOMAIN perp'.positions
            /\ perp'.positions[side].size = RMul(RSub(One, f), pos.size)
            /\ perp'.positions[side].entry_price = pos.entry_price
            /\ margin_used_of(perp', perp_config, side) =
                  RMul(RSub(One, f), margin_used_of(perp, perp_config, side))]_vars

\* part of a position with a non-zero unrealized PnL has been closed
C9_Witness ==
    /\ call.op = "close_partial_position"
    /\ call.args[1] \in DOMAIN perp.positions
    /\ call.ret.realized_pnl # Zero
    /\ RGt(call.ret.trade_fee, Zero)

\* C10: after any sequence of opens, increases and closes a side is in the
\* position set only with size > 0; a close whose size is >= the open size
\* removes the side, realizes its entire unrealized PnL and charges the fee
\* on the full notional.
C10_PresentOnlyWithSize ==
    [][/\ \A s \in DOMAIN perp'.positions :
            RGt(perp'.positions[s].size, Zero)
       /\ (/\ call'.op = "close_partial_position"
           /\ call'.args[1] \in DOMAIN perp.positions
           /\ RGe(call'.args[2], perp.positions[call'.args[1]].size)) =>
            LET side == call'.args[1]
                pos == perp.positions[side]
            IN  /\ side \notin DOMAIN perp'.positions
                /\ call'.ret.realized_pnl = pos.unrealized_pnl
                /\ call'.ret.trade_fee =
                      RMul(RMul(pos.size, perp.current_market_price),
                           perp_config.taker_fee)]_vars

\* a close of more than the open size has removed a side that carried a
\* non-zero unrealized PnL
C10_Witness ==
    /\ call.op = "close_partial_position"
    /\ call.args[1] \notin DOMAIN perp.positions
    /\ call.ret.realized_pnl # Zero
    /\ RLt(call.ret.trade_fee,
           RMul(RMul(call.args[2], perp.current_market_price),
                perp_config.taker_fee))

-----------------------------------------------------------------------------
(* Specification Spec: BacktestEngine.run on a freshly built engine         *)

\* fresh component instances and the arguments of run
FreshRun ==
    /\ \E s \in EngineSetups :
        /\ lp_config = EngineLPConfig(s)
        /\ perp_config = EnginePerpConfig(s)
        /\ lp = LPModule(lp_config, s.start_price)
        /\ \E step \in TickSteps : feed \in Feeds(s.prices, step)
    /\ perp = PerpModule
    /\ \E perp_capital \in PerpCapitals :
        portfolio =
            allocate_to_lp(
                PortfolioModule(RAdd(lp_config.initial_capital, perp_capital)),
                lp_config.initial_capital)
    /\ engine = BacktestEngine(lp_config)
    /\ run_config \in RunConfigs
    /\ run = [NoRun EXCEPT !.pc = "start"]

Init ==
    /\ FreshRun
    /\ call = NoCall

row == feed[run.i]
current_time == row.date
current_price == row.close
TheWorld == World(lp, perp, portfolio, engine, run.current_events)

\* the world w and the locals r become the next state
Commit(w, r) ==
    /\ lp' = w.lp
    /\ perp' = w.perp
    /\ portfolio' = w.portfolio
    /\ engine' = w.engine
    /\ run' = [r EXCEPT !.current_events = w.events]
    /\ UNCHANGED <<lp_config, perp_config, feed, run_config, call>>

\* run, lines 73-89: indicators, signals and the locals; df['date'].iloc[0]
\* raises IndexError on a frame without rows
RunStart ==
    /\ run.pc = "start"
    /\ IF Len(feed) = 0
       THEN Commit(TheWorld, [run EXCEPT !.pc = "aborted"])
       ELSE Commit(TheWorld,
                [run EXCEPT
                    !.pc = "mark", !.i = 1,
                    !.last_execution_time = Epoch,
                    !.last_funding_time = feed[1].date,
                    !.last_cap_rebal_date = feed[1].date,
                    !.last_withdrawal_date = feed[1].date])

\* run, lines 92-98: mark-to-market
RunMarkToMarket ==
    /\ run.pc = "mark"
    /\ Commit([TheWorld EXCEPT
                  !.lp = update_price(lp, current_price),
                  !.perp = update_market_price(perp, current_price),
                  !.events = << >>],
              [run EXCEPT !.pc = "fee"])

\* run, lines 101-103: fee accrual
RunCollectFee ==
    /\ run.pc = "fee"
    /\ LET lp_fee == hourly_fee(lp, lp_config)
       IN  Commit([TheWorld EXCEPT
                      !.lp = collect_fee(lp, lp_config),
                      !.portfolio =
                          IF RGt(lp_fee, Zero)
                          THEN record_transaction(@, "REVENUE_LP_FEE", lp_fee)
                          ELSE @],
                  [run EXCEPT !.pc = "rebalance"])

\* the execution block entered on every tick
can_execute_every_tick == TRUE

\* run, line 106
can_execute ==
    (current_time - run.last_execution_time) * 60
        >= run_config.execution_interval_min * 60

\* run, lines 106-114: the execution gate and the LP rebalance check
RunRebalance ==
    /\ run.pc = "rebalance"
    /\ IF can_execute
       THEN LET res == RebalanceResult(lp, lp_config)
            IN  Commit([TheWorld EXCEPT
                          !.lp = check_and_rebalance(lp, lp_config),
                          !.portfolio =
                              IF res.is_rebalanced
                              THEN record_transaction(
                                       record_transaction(@, "EXPENSE_GAS",
                                           RNeg(res.gas_cost)),
                                       "EXPENSE_SLIPPAGE",
                                       RNeg(res.slippage_cost))
                              ELSE @,
                          !.events =
                              IF res.is_rebalanced
                              THEN Append(@, <<"LP_REBALANCE">>) ELSE @],
                       [run EXCEPT !.pc = "hedge"])
       ELSE Commit(TheWorld, [run EXCEPT !.pc = "sweep"])

\* run, lines 117-123 and 136: the strategy's order and its first attempt
RunHedge ==
    /\ run.pc = "hedge"
    /\ LET orders ==
               generate_orders(
                   current_tick(feed, run.i, run_config.strategy_config),
                   run_config.strategy_config, lp, perp)
       IN  IF orders = << >>
           THEN Commit(TheWorld,
                    [run EXCEPT !.pc = "sweep",
                                !.last_execution_time = current_time])
           ELSE IF open_divides_by_zero(TheWorld, perp_config, orders[1])
           THEN Commit(TheWorld, [run EXCEPT !.pc = "aborted"])
           ELSE IF execute_raises(TheWorld, perp_config, orders[1])
           THEN Commit(_execute_perp_order(TheWorld, perp_config, orders[1]),
                    [run EXCEPT !.pc = "rescue", !.order = orders[1]])
           ELSE Commit(_execute_perp_order(TheWorld, perp_config, orders[1]),
                    [run EXCEPT !.pc = "sweep",
                                !.last_execution_time = current_time])

\* run, lines 124-127 and 133-136: the rescue that follows a MARGIN_CALL
RunRescue ==
    /\ run.pc = "rescue"
    /\ LET amt == deficit_filled(TheWorld, perp_config, run.order,
                                 current_price)
           w == _attempt_rescue(TheWorld, perp_config, run.order,
                                current_price)
       IN  IF RGt(amt, Zero)
           THEN Commit([w EXCEPT
                           !.events = Append(@, <<"EMERGENCY_RESCUE", amt>>)],
                       [run EXCEPT !.pc = "retry"])
           ELSE Commit(_log_margin_failure(w, perp_config, current_time,
                                           current_price, run.order),
                       [run EXCEPT !.pc = "sweep", !.order = << >>,
                                   !.last_execution_time = current_time])

\* run, lines 128-132 and 136: the one retry after a rescue
RunRetry ==
    /\ run.pc = "retry"
    /\ Commit(IF execute_raises(TheWorld, perp_config, run.order)
              THEN _log_margin_failure(
                       _execute_perp_order(TheWorld, perp_config, run.order),
                       perp_config, current_time, current_price, run.order)
              ELSE _execute_perp_order(TheWorld, perp_config, run.order),
              [run EXCEPT !.pc = "sweep", !.order = << >>,
                          !.last_execution_time = current_time])

\* run, lines 138-142: cross-margin sweep
RunSweep ==
    /\ run.pc = "sweep"
    /\ IF /\ run_config.cap_rebal_enabled
          /\ (current_time - run.last_cap_rebal_date) * 60
                >= run_config.cap_rebal_freq * 86400
       THEN Commit(_perform_capital_sweep(TheWorld, perp_config),
                   [run EXCEPT !.pc = "harvest",
                               !.last_cap_rebal_date = current_time])
       ELSE Commit(TheWorld, [run EXCEPT !.pc = "harvest"])

\* run, lines 144-155: passive income withdrawal
RunHarvest ==
    /\ run.pc = "harvest"
    /\ LET days_since_last ==
               (current_time - run.last_withdrawal_date) \div (60 * 24)
           current_lp_profit ==
               RSub(lp.position_value, engine.lp_initial_capital)
           actual_withdraw ==
               min(run_config.withdraw_target, current_lp_profit)
       IN  IF /\ run_config.withdraw_enabled
              /\ days_since_last >= run_config.withdraw_freq
              /\ RGt(current_lp_profit, Zero)
           THEN Commit([TheWorld EXCEPT
                          !.lp.position_value = RSub(@, actual_withdraw),
                          !.portfolio = record_transaction(@, "WITHDRAWAL",
                                            RNeg(actual_withdraw)),
                          !.engine.withdrawal_count = @ + 1,
                          !.events = Append(@, <<"PASSIVE_WITHDRAWAL",
                                                 actual_withdraw>>)],
                       [run EXCEPT !.pc = "funding",
                                   !.last_withdrawal_date = current_time])
           ELSE Commit(TheWorld, [run EXCEPT !.pc = "funding"])

FundingSeconds == 8 * 3600

\* funding_due with the clock that never restarts: the time since the
\* first tick
funding_due_since_first_tick ==
    (current_time - feed[1].date) * 60 >= FundingSeconds

\* run, line 158: the time since last_funding_time has reached 8 hours
funding_due ==
    (current_time - run.last_funding_time) * 60 >= FundingSeconds

\* run, lines 157-164: funding
RunFunding ==
    /\ run.pc = "funding"
    /\ IF funding_due
       THEN LET funding_pnl == net_funding(perp, run_config.funding_rate)
                type_fund ==
                    IF RGt(funding_pnl, Zero) THEN "REVENUE_FUNDING"
                    ELSE "EXPENSE_FUNDING"
            IN  Commit([TheWorld EXCEPT
                          !.perp = apply_funding(perp, run_config.funding_rate),
                          !.portfolio =
                              IF funding_pnl # Zero
                              THEN record_transaction(@, type_fund, funding_pnl)
                              ELSE @,
                          !.events =
                              IF funding_pnl # Zero
                              THEN Append(@, <<"FUNDING_PAYMENT">>) ELSE @],
                       [run EXCEPT !.pc = "snapshot",
                                   !.last_funding_time = current_time])
       ELSE Commit(TheWorld, [run EXCEPT !.pc = "snapshot"])

\* run, lines 166-179: the row appended to history
state_dict ==
    LET snap == get_margin_snapshot(perp, perp_config, portfolio)
        state == get_state(portfolio, current_time, lp.position_value, snap.pnl)
    IN  [ timestamp            |-> state.timestamp,
          net_equity           |-> state.net_equity,
          idle_cash            |-> state.idle_cash,
          lp_value             |-> state.lp_value,
          perp_pnl             |-> state.perp_pnl,
          total_fees_collected |-> state.total_fees_collected,
          total_costs          |-> state.total_costs,
          event                |-> run.current_events,
          price                |-> current_price,
          perp_size            |-> get_short_position_size(perp),
          lp_eth               |-> get_eth_inventory(lp) ]

\* run, lines 166-181: snapshot, then the next row or the return
RunSnapshot ==
    /\ run.pc = "snapshot"
    /\ Commit(TheWorld,
              [run EXCEPT
                  !.history = Append(@, state_dict),
                  !.pc = IF run.i < Len(feed) THEN "mark" ELSE "done",
                  !.i = IF run.i < Len(feed) THEN @ + 1 ELSE @])

Next ==
    \/ RunStart
    \/ RunMarkToMarket
    \/ RunCollectFee
    \/ RunRebalance
    \/ RunHedge
    \/ RunRescue
    \/ RunRetry
    \/ RunSweep
    \/ RunHarvest
    \/ RunFunding
    \/ RunSnapshot

Spec == Init /\ [][Next]_vars

-----------------------------------------------------------------------------
(* Properties of BacktestEngine.run, checked under Spec                      *)

accepted_increase ==
    /\ run.pc \in {"hedge", "retry"}
    /\ engine'.hedge_count = engine.hedge_count + 1
    /\ RGt(get_short_position_size(perp'), get_short_position_size(perp))

\* C3: whenever a hedge open/increase order is accepted (open_position
\* returns and the engine posts its fee), available margin = wallet balance
\* + total unrealized PnL - total margin used is >= 0 right afterwards, also
\* when a position was already open.
C3_AcceptedLeavesMargin ==
    [][accepted_increase =>
        RGe(get_margin_snapshot(perp', perp_config, portfolio').available,
            Zero)]_vars

\* a step of run in which open_position raised MARGIN_CALL: the first
\* attempt of an order, or the retry after a rescue
rejected_open ==
    \/ run.pc = "hedge" /\ run'.pc = "rescue"
    \/ /\ run.pc = "retry"
       /\ Len(run'.current_events) = Len(run.current_events) + 1
       /\ run'.current_events[Len(run'.current_events)][1] =
             "MARGIN_CALL_REJECT"

C6_OneRowPerTick ==
    /\ run.pc # "aborted"
    /\ run.pc = "done" =>
          /\ Len(run.history) = Len(feed)
          /\ \A k \in 1..Len(feed) :
                /\ run.history[k].timestamp = feed[k].date
                /\ run.history[k].price = feed[k].close


\* C11: recording an LP-fee, gas or slippage transaction updates only its
\* category total and leaves wallet cash unchanged, so each accrued LP fee
\* and each rebalance cost changes net equity once, through LP value, and
\* not a second time through the wallet.
C11_LedgerOnlyCategories ==
    [][run.pc \in {"fee", "rebalance"} =>
        LET pnl == get_total_unrealized_pnl(perp)
            fee == hourly_fee(lp, lp_config)
            res == RebalanceResult(lp, lp_config)
        IN  /\ cex_wallet_balance(portfolio') = cex_wallet_balance(portfolio)
            /\ RSub(get_net_equity(portfolio', lp'.position_value, pnl),
                    get_net_equity(portfolio, lp.position_value, pnl))
                  = RSub(lp'.position_value, lp.position_value)
            /\ run.pc = "fee" =>
                  portfolio'.ledgers =
                      [portfolio.ledgers EXCEPT
                          !["REVENUE_LP_FEE"] = RAdd(@, fee)]
            /\ (run.pc = "rebalance" /\ can_execute) =>
                  portfolio'.ledgers =
                      [portfolio.ledgers EXCEPT
                          !["EXPENSE_GAS"] = RSub(@, res.gas_cost),
                          !["EXPENSE_SLIPPAGE"] = RSub(@, res.slippage_cost)]
        ]_vars


\* C12: every venue-crossing transaction the engine posts (hedge fee,
\* funding revenue or expense, realized-PnL deposit, withdrawal) changes the
\* wallet balance by the signed amount recorded; none is silently ignored.
\* A hedge order posts the realized PnL (the unrealized PnL it takes off the
\* position) and the fee; funding posts the funding PnL; a harvest posts the
\* amount it takes out of the LP; a rescue posts a withdrawal and a deposit
\* of the same amount.
C12_WalletFollowsPostings ==
    [][LET wallet_change ==
               RSub(cex_wallet_balance(portfolio'),
                    cex_wallet_balance(portfolio))
           realized_pnl ==
               RSub(get_total_unrealized_pnl(perp),
                    get_total_unrealized_pnl(perp'))
           fee == RSub(perp'.total_trading_fees, perp.total_trading_fees)
       IN  /\ run.pc \in {"hedge", "retry"} =>
                 wallet_change = RSub(realized_pnl, fee)
           /\ run.pc = "funding" =>
                 wallet_change =
                     RSub(perp'.total_funding_pnl, perp.total_funding_pnl)
           /\ run.pc = "harvest" =>
                 wallet_change = RSub(lp'.position_value, lp.position_value)
           /\ run.pc = "rescue" => wallet_change = Zero]_vars


C20_PhaseOrder ==
    [][LET order == <<"mark", "fee", "rebalance", "hedge", "rescue", "retry",
                      "funding", "sweep", "harvest", "snapshot">>
           rank(pc) == CHOOSE k \in 1..Len(order) : order[k] = pc
           phases == {order[k] : k \in 1..Len(order)}
       IN  (run.pc \in phases /\ run'.pc \in phases /\ run'.i = run.i) =>
               rank(run.pc) < rank(run'.pc)]_vars


\* C17: the fee accrued on one tick equals value * yieldRate * multiplier /
\* ticksPerYear, so that over a fixed span of simulated time the fee does
\* not grow with the number of ticks the span is divided into.  yieldRate
\* is the annual fee yield of the configuration, daily_volume * fee_tier *
\* 365 / pool_tvl, and ticksPerYear the number of row spacings in 365 days.
C17_FeePerTickAnnualized ==
    [][(run.pc = "fee" /\ Len(feed) >= 2) =>
        LET minutes_per_year == 365 * 24 * 60
            ticks_per_year == Q(minutes_per_year, feed[2].date - feed[1].date)
            yield_rate ==
                RDiv(RMul(RMul(lp_config.daily_volume, lp_config.fee_tier),
                          Q(365, 1)),
                     lp_config.pool_tvl)
            accrued == RSub(lp'.accumulated_fees, lp.accumulated_fees)
            inside == /\ RLt(lp.range_lower, lp.current_price)
                      /\ RLt(lp.current_price, lp.range_upper)
        IN  accrued =
                IF inside
                THEN RDiv(RMul(RMul(lp.position_value, yield_rate),
                               lp.multiplier),
                          ticks_per_year)
                ELSE Zero]_vars


\* C15: the trend signal changes only when the price leaves the hysteresis
\* band around the moving reference: on every tick whose price lies inside
\* the band the signal handed to generate_orders equals the signal of the
\* previous tick, and it is -1 (hedge-on) until the price first leaves the
\* band (the signal "before" the first tick is -1).
C15_SignalHeldInsideBand ==
    run.pc = "hedge" =>
        \A band \in HysteresisBandPcts : \A i \in 1..run.i :
            LET config == run_config.strategy_config
                reference == ema(feed, i, config.ema_period)
                upper == RMul(reference, RAdd(One, band))
                lower == RMul(reference, RSub(One, band))
                inside == /\ RLe(lower, feed[i].close)
                          /\ RLe(feed[i].close, upper)
                previous == IF i = 1 THEN -1 ELSE signal(feed, i - 1, config)
            IN  inside => signal(feed, i, config) = previous


-----------------------------------------------------------------------------
(* Specification SpecStrategy: calls of generate_orders on a StrategyModule  *)
(* whose LP moves with the price and whose short is opened and reduced       *)

\* the LP of the strategy calls holds 1200 at price 8: an inventory of 75
StrategyLPConfig == CHOOSE c \in LPConfigs : c.rebalance_threshold = Q(1, 4)

\* shorts opened and closed between the calls: 60 is 1/5 short of the
\* inventory of 75, 72 is 1/25 short of it, 75 matches it
HedgeSizes == {Q(60, 1), Q(12, 1), Q(3, 1)}
HedgeWallet == Q(4096, 1)

StrategyConfigs ==
    { [ema_period |-> 3, safety_net_pct |-> Q(1, 4), hedge_threshold |-> th]
          : th \in {Q(1, 16), Q(1, 5)} }

\* rows handed to generate_orders: a signal and a single-tick change
Ticks ==
    { [date |-> FeedStart, close |-> StartPrice, signal |-> sg,
       pct_change |-> pc]
          : sg \in {1, -1},
            pc \in {Q(-1, 2), Q(-1, 4), Q(-1, 8), Zero, Q(1, 8), Q(1, 4)} }

InitStrategy ==
    /\ lp_config = StrategyLPConfig
    /\ lp = LPModule(lp_config, StartPrice)
    /\ perp_config = CHOOSE c \in PerpConfigs : c.leverage = One
    /\ perp = update_market_price(PerpModule, StartPrice)
    /\ NoEngine
    /\ call = NoCall

StrategyUpdatePrice ==
    /\ call.n < MaxStrategyOps
    /\ \E p \in Prices :
        /\ lp' = update_price(lp, p)
        /\ perp' = update_market_price(perp, p)
        /\ call' = [op |-> "update_price", args |-> <<p>>, ret |-> <<>>,
                    n |-> call.n + 1]
    /\ UNCHANGED <<lp_config, perp_config, engine_vars>>

StrategyOpenShort ==
    /\ call.n < MaxStrategyOps
    /\ \E size \in HedgeSizes :
        /\ perp' = open_position(perp, perp_config, "SHORT", size, HedgeWallet)
        /\ call' = [op |-> "open_position", args |-> <<size>>, ret |-> <<>>,
                    n |-> call.n + 1]
    /\ UNCHANGED <<lp_config, lp, perp_config, engine_vars>>

StrategyCloseShort ==
    /\ call.n < MaxStrategyOps
    /\ \E size \in HedgeSizes :
        /\ perp' = close_partial_position(perp, perp_config, "SHORT", size)
        /\ call' = [op |-> "close_partial_position", args |-> <<size>>,
                    ret |-> <<>>, n |-> call.n + 1]
    /\ UNCHANGED <<lp_config, lp, perp_config, engine_vars>>

StrategyGenerateOrders ==
    /\ call.n < MaxStrategyOps
    /\ \E tick \in Ticks, config \in StrategyConfigs :
        call' = [op |-> "generate_orders", args |-> <<tick, config>>,
                 ret |-> generate_orders(tick, config, lp, perp),
                 n |-> call.n + 1]
    /\ UNCHANGED <<lp_config, lp, perp_config, perp, engine_vars>>

NextStrategy ==
    \/ StrategyUpdatePrice
    \/ StrategyOpenShort
    \/ StrategyCloseShort
    \/ StrategyGenerateOrders

SpecStrategy == InitStrategy /\ [][NextStrategy]_vars

\* the flip and the drift of a target against the short that is open
hedge_flips(target, current) ==
    \/ target = Zero /\ RGt(current, Zero)
    \/ RGt(target, Zero) /\ current = Zero

hedge_drifts(target, current, threshold) ==
    /\ RGt(target, Zero)
    /\ RGt(RDiv(abs(RSub(target, current)), target), threshold)

C14_SafetyNetEitherDirection ==
    (/\ call.op = "generate_orders"
     /\ RGe(abs(call.args[1].pct_change), call.args[2].safety_net_pct)) =>
        LET config == call.args[2]
            orders == call.ret
            current == get_short_position_size(perp)
            target == get_eth_inventory(lp)
        IN  IF orders = << >>
            THEN /\ ~hedge_flips(target, current)
                 /\ ~hedge_drifts(target, current, config.hedge_threshold)
            ELSE /\ orders[1].target_size = target
                 /\ orders[1].reason = "Safety Net Triggered"


-----------------------------------------------------------------------------
(* Margin failures, rescues, sweeps and harvests of run, checked under Spec  *)

\* the number of events of current_events that carry the tag
RECURSIVE CountTag(_, _)
CountTag(events, tag) ==
    IF events = << >> THEN 0
    ELSE (IF Head(events)[1] = tag THEN 1 ELSE 0) + CountTag(Tail(events), tag)

\* a step of run that gives an order up: the rescue moved nothing, or the
\* retry after the rescue did not execute the order
order_given_up ==
    \/ run.pc = "rescue" /\ lp'.position_value = lp.position_value
    \/ run.pc = "retry" /\ engine'.hedge_count = engine.hedge_count

rescue_transfer ==
    run.pc = "rescue" /\ lp'.position_value # lp.position_value

\* C22: every emergency rescue transfers an amount that is <= deficit +
\* safety buffer (50) and <= the bounded fraction (4/5) of the LP profit,
\* LP value - LP initial capital; hence no rescue happens when the LP has no
\* profit and a rescue never lowers LP value below the LP initial capital.
C22_RescueBounded ==
    [][rescue_transfer =>
        LET amount == RSub(lp.position_value, lp'.position_value)
            profit == RSub(lp.position_value, engine.lp_initial_capital)
            notional ==
                RMul(abs(RSub(run.order.target_size,
                              get_short_position_size(perp))),
                     current_price)
            needed == RAdd(RDiv(notional, perp_config.leverage),
                           RMul(notional, perp_config.taker_fee))
            available ==
                get_margin_snapshot(perp, perp_config, portfolio).available
        IN  /\ RGt(amount, Zero)
            /\ RLe(amount, RAdd(RSub(needed, available), Q(50, 1)))
            /\ RLe(amount, RMul(profit, Q(4, 5)))
            /\ RGt(profit, Zero)
            /\ RGe(lp'.position_value, engine.lp_initial_capital)]_vars

\* a rescue has just moved LP profit and its tag is the last of the tick
C22_Witness ==
    /\ run.pc = "retry"
    /\ run.current_events # << >>
    /\ run.current_events[Len(run.current_events)][1] = "EMERGENCY_RESCUE"
    /\ RGt(lp.position_value, engine.lp_initial_capital)


\* a step of run in which _perform_capital_sweep moved capital
sweep_transfer ==
    run.pc = "sweep" /\ lp'.position_value # lp.position_value

\* C23: an emergency rescue or a cross-venue sweep of amount X lowers the
\* source venue (LP value or exchange wallet) by exactly X and raises the
\* destination venue by exactly X, so net equity right after the transfer
\* equals net equity right before it.
C23_TransferConservesEquity ==
    [][(rescue_transfer \/ sweep_transfer) =>
        /\ RSub(cex_wallet_balance(portfolio'), cex_wallet_balance(portfolio))
             = RSub(lp.position_value, lp'.position_value)
        /\ get_net_equity(portfolio', lp'.position_value,
                          get_total_unrealized_pnl(perp'))
             = get_net_equity(portfolio, lp.position_value,
                              get_total_unrealized_pnl(perp))]_vars


\* C24: a sweep from the exchange wallet to the LP never moves more than the
\* unlocked wallet cash (wallet + unrealized PnL - margin used) at that
\* moment, so available margin is >= 0 right after any such sweep; a sweep
\* in either direction moves the LP share of total equity toward the
\* original LP/exchange capital ratio and never past it.
C24_SweepBounded ==
    [][sweep_transfer =>
        LET before == get_margin_snapshot(perp, perp_config, portfolio)
            after == get_margin_snapshot(perp', perp_config, portfolio')
            total_eq == RAdd(lp.position_value, RAdd(before.wallet, before.pnl))
            target_lp ==
                RMul(total_eq, RDiv(engine.lp_initial_capital,
                                    portfolio.initial_capital))
        IN  IF RGt(lp'.position_value, lp.position_value)
            THEN /\ RLe(RSub(lp'.position_value, lp.position_value),
                        before.available)
                 /\ RGe(after.available, Zero)
                 /\ RLe(lp'.position_value, target_lp)
            ELSE RGe(lp'.position_value, target_lp)]_vars

\* a sweep from the exchange to the LP that the unlocked cash cut short: it
\* has taken all of it and the LP is still below its share
C24_Witness ==
    /\ run.pc = "harvest"
    /\ run.current_events # << >>
    /\ run.current_events[Len(run.current_events)][1] = "SWEEP_CEX_TO_LP"
    /\ get_margin_snapshot(perp, perp_config, portfolio).available = Zero
    /\ RGt(get_short_position_size(perp), Zero)


\* a step of run in which the passive income withdrawal took LP value
harvest_transfer ==
    run.pc = "harvest" /\ lp'.position_value # lp.position_value

\* C25: a harvest happens only when LP value exceeds the LP initial capital
\* and withdraws min(configured target, that excess); it lowers in-system
\* net equity by exactly the withdrawn amount, raises total withdrawn by the
\* same amount, and never lowers LP value below the LP initial capital.
C25_HarvestFromProfit ==
    [][harvest_transfer =>
        LET amount == RSub(lp.position_value, lp'.position_value)
            excess == RSub(lp.position_value, engine.lp_initial_capital)
        IN  /\ RGt(excess, Zero)
            /\ amount = min(run_config.withdraw_target, excess)
            /\ get_net_equity(portfolio', lp'.position_value,
                              get_total_unrealized_pnl(perp'))
                 = RSub(get_net_equity(portfolio, lp.position_value,
                                       get_total_unrealized_pnl(perp)),
                        amount)
            /\ total_withdrawn(portfolio')
                 = RAdd(total_withdrawn(portfolio), amount)
            /\ RGe(lp'.position_value, engine.lp_initial_capital)]_vars


-----------------------------------------------------------------------------
(* Specification SpecPair: two runs of BacktestEngine.run side by side.      *)
(* Each run has its own lp, perp, portfolio and engine instances, built from *)
(* the same configuration, and is given the same data_feed.  The variables   *)
(* hold the run that is executing; call.ret holds the instances and locals   *)
(* of the run that is waiting, and call.n says which of the two executes.    *)

Instances ==
    [lp |-> lp, perp |-> perp, portfolio |-> portfolio, engine |-> engine,
     run |-> run]

InitPair ==
    /\ FreshRun
    /\ call = [op |-> "other_run", args |-> << >>, ret |-> Instances,
               n |-> 0]

\* the scheduler hands the processor to the other run
PairSwitch ==
    /\ call.op = "other_run"
    /\ lp' = call.ret.lp
    /\ perp' = call.ret.perp
    /\ portfolio' = call.ret.portfolio
    /\ engine' = call.ret.engine
    /\ run' = call.ret.run
    /\ call' = [call EXCEPT !.ret = Instances, !.n = 1 - @]
    /\ UNCHANGED <<lp_config, perp_config, feed, run_config>>

NextPair ==
    \/ RunStart
    \/ RunMarkToMarket
    \/ RunCollectFee
    \/ RunRebalance
    \/ RunHedge
    \/ RunRescue
    \/ RunRetry
    \/ RunSweep
    \/ RunHarvest
    \/ RunFunding
    \/ RunSnapshot
    \/ PairSwitch

SpecPair == InitPair /\ [][NextPair]_vars

-----------------------------------------------------------------------------
(* Specification SpecLPGuard: calls on an LPModule built and driven with    *)
(* degenerate numbers                                                        *)

InitLPGuard ==
    /\ \E s \in DegenerateLPSetups :
        /\ lp_config = s.config
        /\ lp = LPModule(s.config, s.start_price)
    /\ perp_config = CHOOSE c \in PerpConfigs : TRUE
    /\ perp = PerpModule
    /\ NoEngine
    /\ call = NoCall

LPGetEthInventory ==
    /\ call.n < MaxLPOps
    /\ call' = [op |-> "get_eth_inventory", args |-> <<>>,
                ret |-> get_eth_inventory(lp), n |-> call.n + 1]
    /\ UNCHANGED <<lp_config, lp, perp_config, perp, engine_vars>>

NextLPGuard ==
    \/ LPUpdatePrice
    \/ LPCollectFee
    \/ LPCheckAndRebalance
    \/ LPGetEthInventory

SpecLPGuard == InitLPGuard /\ [][NextLPGuard]_vars

\* the numbers of an LPModule are defined: no denominator is 0, the bounds
\* are ordered and the skew is a fraction between 0 and 1
lp_well_defined(m) ==
    /\ \A q \in {m.position_value, m.skew, m.range_lower, m.range_upper,
                  m.current_price, m.accumulated_fees} : q[2] > 0
    /\ RLe(m.range_lower, m.range_upper)
    /\ RLe(Zero, m.skew) /\ RLe(m.skew, One)

\* C27: for a non-positive price or a zero pool total-value-locked the LP
\* operations update_price, collect_fee and get_eth_inventory return zero or
\* leave the state unchanged; none of them raises a division error and the
\* position's value, skew and bounds stay well-defined.
C27_DegenerateGuarded ==
    [][LET degenerate == \/ RLe(lp.current_price, Zero)
                         \/ lp_config.pool_tvl = Zero
       IN  /\ call'.op # "collect_fee raised ZeroDivisionError"
           /\ ( /\ call'.op \in {"update_price", "collect_fee",
                                 "get_eth_inventory"}
                /\ lp_well_defined(lp) ) => lp_well_defined(lp')
           /\ (degenerate /\ call'.op = "collect_fee") =>
                 (call'.ret = Zero /\ lp' = lp)
           /\ (RLe(lp.current_price, Zero) /\ call'.op = "get_eth_inventory")
                 => (call'.ret = Zero /\ lp' = lp)
           /\ (RLe(lp.current_price, Zero) /\ call'.op = "update_price") =>
                 lp' = [lp EXCEPT !.current_price = call'.args[1]]]_vars


-----------------------------------------------------------------------------
(* Specification SpecSetup: run on the configurations of Spec and on the     *)
(* same configurations with a leverage of 0 or an LP capital of 0            *)

ConfigFaults == {"none", "leverage", "capital"}

InitSetup ==
    /\ \E s \in EngineSetups, fault \in ConfigFaults :
        /\ lp_config =
              IF fault = "capital"
              THEN [EngineLPConfig(s) EXCEPT !.initial_capital = Zero]
              ELSE EngineLPConfig(s)
        /\ perp_config =
              IF fault = "leverage"
              THEN [EnginePerpConfig(s) EXCEPT !.leverage = Zero]
              ELSE EnginePerpConfig(s)
        /\ lp = LPModule(lp_config, s.start_price)
        /\ \E step \in TickSteps : feed \in Feeds(s.prices, step)
    /\ perp = PerpModule
    /\ \E perp_capital \in PerpCapitals :
        portfolio =
            allocate_to_lp(
                PortfolioModule(RAdd(lp_config.initial_capital, perp_capital)),
                lp_config.initial_capital)
    /\ engine = BacktestEngine(lp_config)
    /\ run_config \in RunConfigs
    /\ run = [NoRun EXCEPT !.pc = "start"]
    /\ call = NoCall

NextSetup ==
    \/ RunStart
    \/ RunMarkToMarket
    \/ RunCollectFee
    \/ RunRebalance
    \/ RunHedge
    \/ RunRescue
    \/ RunRetry
    \/ RunSweep
    \/ RunHarvest
    \/ RunFunding
    \/ RunSnapshot

SpecSetup == InitSetup /\ [][NextSetup]_vars

\* C28: a run configured with non-positive leverage or non-positive capital
\* fails with a configuration error at setup, before the first tick is
\* processed: it never starts ticking (it never leaves the start of run for
\* the loop, appends no row and posts nothing) and so never fails later
\* inside the loop.
C28_InvalidConfigNeverTicks ==
    ( \/ RLe(perp_config.leverage, Zero)
      \/ RLe(lp_config.initial_capital, Zero)
      \/ RLe(portfolio.initial_capital, Zero) ) =>
        /\ run.pc = "start"
        /\ run.history = << >>


-----------------------------------------------------------------------------
(* Specification SpecPortfolio: allocate_to_lp and return_from_lp called on  *)
(* one PortfolioModule                                                       *)

\* the capital of the fixture of tests/test_portfolio.py and a smaller one
PortfolioCapitals == {Q(10000, 1), Q(64, 1)}

\* the amounts of test_lp_allocation_and_reconciliation, an amount above the
\* capital, zero and a negative amount
PortfolioAmounts == {Q(8000, 1), Q(1001, 2), Q(12000, 1), Zero, Q(-5, 1)}

InitPortfolio ==
    /\ lp_config = CHOOSE c \in LPConfigs : TRUE
    /\ lp = LPModule(lp_config, StartPrice)
    /\ perp_config = CHOOSE c \in PerpConfigs : TRUE
    /\ perp = PerpModule
    /\ \E capital \in PortfolioCapitals : portfolio = PortfolioModule(capital)
    /\ engine = BacktestEngine(lp_config)
    /\ feed = << >>
    /\ run_config = CHOOSE c \in RunConfigs : TRUE
    /\ run = NoRun
    /\ call = NoCall

PortfolioAllocateToLp ==
    /\ call.n < MaxPortfolioOps
    /\ \E amount \in PortfolioAmounts :
        /\ portfolio' = allocate_to_lp(portfolio, amount)
        /\ call' = [op |-> "allocate_to_lp", args |-> <<amount>>,
                    ret |-> allocate_to_lp_returns(portfolio, amount),
                    n |-> call.n + 1]
    /\ UNCHANGED <<lp_config, lp, perp_config, perp, engine, feed,
                   run_config, run>>

PortfolioReturnFromLp ==
    /\ call.n < MaxPortfolioOps
    /\ \E amount \in PortfolioAmounts :
        /\ portfolio' = return_from_lp(portfolio, amount)
        /\ call' = [op |-> "return_from_lp", args |-> <<amount>>,
                    ret |-> << >>, n |-> call.n + 1]
    /\ UNCHANGED <<lp_config, lp, perp_config, perp, engine, feed,
                   run_config, run>>

NextPortfolio ==
    \/ PortfolioAllocateToLp
    \/ PortfolioReturnFromLp

SpecPortfolio == InitPortfolio /\ [][NextPortfolio]_vars

\* C29: allocate_to_lp(amount) returns the smaller of amount and the idle
\* cash and moves exactly that much from idle cash to the LP allocation, so
\* idle cash is not below zero after it; every allocate_to_lp and
\* return_from_lp call leaves idle_cash + lp_allocated_cash as it was.
C29_AllocateCappedSumConstant ==
    [][/\ call'.op = "allocate_to_lp" =>
            LET amount == call'.args[1]
                moved  == IF RLt(portfolio.idle_cash, amount)
                          THEN portfolio.idle_cash ELSE amount
            IN  /\ call'.ret = moved
                /\ portfolio'.idle_cash = RSub(portfolio.idle_cash, moved)
                /\ portfolio'.lp_allocated_cash =
                       RAdd(portfolio.lp_allocated_cash, moved)
                /\ RGe(portfolio'.idle_cash, Zero)
       /\ call'.op \in {"allocate_to_lp", "return_from_lp"} =>
            RAdd(portfolio'.idle_cash, portfolio'.lp_allocated_cash) =
                RAdd(portfolio.idle_cash, portfolio.lp_allocated_cash)]_vars

\* an allocation above the idle cash, made after money came back from the
\* LP, moved the idle cash only
C29_Witness ==
    /\ call.op = "allocate_to_lp"
    /\ call.n = MaxPortfolioOps
    /\ RLt(call.ret, call.args[1])
    /\ RGt(call.ret, Zero)
    /\ portfolio.idle_cash = Zero
    /\ RAdd(portfolio.idle_cash, portfolio.lp_allocated_cash) =
          portfolio.initial_capital


-----------------------------------------------------------------------------
(* Specification SpecRebalance: DirectLPController.execute_rebalance, one    *)
(* step per transaction.  The call in progress is held in call: args is      *)
(* <<params, chain>>, ret is the position in the flow, the transactions      *)
(* handed to _send_transaction so far and the value returned.                *)

\* int(x) of Python for a rational x: truncation toward zero
int(x) == IF x[1] >= 0 THEN x[1] \div x[2] ELSE -((-x[1]) \div x[2])

\* RebalanceParams of tests/test_direct_controller.py with slippage
\* tolerances that are exact in binary, one of them above 1
RebalanceParams ==
    { [token_id |-> 1, new_tick_lower |-> -1000, new_tick_upper |-> 1000,
       token0_address |-> "0xT0", token1_address |-> "0xT1",
       fee_tier |-> 500, amount0_desired |-> 100, amount1_desired |-> 100,
       deadline |-> 99, slippage_tolerance |-> st] : st \in {Q(1, 8), Q(2, 1)} }

\* what the chain answers: the liquidity of the position (or the call of
\* positions() raising), the allowances of the two tokens (or the call of
\* allowance() raising)
\* the call raised: a value no uint answer takes
Raises == -1

Liquidities == {0, 1000000, Raises}
Allowances == {0, 100, Raises}

\* how a transaction put on the chain ends: receipt status 1, receipt
\* status 0, or an exception anywhere in _send_transaction
TxOutcomes == {"success", "failed in receipt", "exception"}

\* DirectLPController._send_transaction: the value returned
_send_transaction(dry_run, outcome) ==
    IF dry_run THEN TRUE ELSE outcome = "success"

\* minimum amount under the slippage tolerance, not below 0
amt_min(amount, params) ==
    LET m == int(RMul(Q(amount, 1), RSub(One, params.slippage_tolerance)))
    IN  IF m > 0 THEN m ELSE 0

\* the data of the three transactions
decrease_data(params, current_liq) ==
    <<params.token_id, current_liq, amt_min(params.amount0_desired, params),
      amt_min(params.amount1_desired, params), params.deadline>>

collect_data(params) == <<params.token_id, "wallet", "max", "max">>

mint_data(params) ==
    <<params.token0_address, params.token1_address, params.fee_tier,
      params.new_tick_lower, params.new_tick_upper,
      params.amount0_desired, params.amount1_desired,
      amt_min(params.amount0_desired, params),
      amt_min(params.amount1_desired, params), "wallet", params.deadline>>

\* execute_rebalance going on to collect whatever decreaseLiquidity returned
after_transaction_no_breaker(tx_name, ok) ==
    CASE tx_name = "decreaseLiquidity" -> [pc |-> "collect", result |-> "none"]
      [] tx_name = "collect" ->
            IF ok THEN [pc |-> "approve0", result |-> "none"]
                  ELSE [pc |-> "returned", result |-> "False"]
      [] tx_name = "mint" ->
            [pc |-> "returned", result |-> IF ok THEN "True" ELSE "False"]

\* execute_rebalance after one of its three transactions returned ok: the
\* next step, or the value returned
after_transaction(tx_name, ok) ==
    CASE tx_name = "decreaseLiquidity" ->
            IF ok THEN [pc |-> "collect", result |-> "none"]
                  ELSE [pc |-> "returned", result |-> "False"]
      [] tx_name = "collect" ->
            IF ok THEN [pc |-> "approve0", result |-> "none"]
                  ELSE [pc |-> "returned", result |-> "False"]
      [] tx_name = "mint" ->
            [pc |-> "returned", result |-> IF ok THEN "True" ELSE "False"]

InitRebalance ==
    /\ lp_config = CHOOSE c \in LPConfigs : TRUE
    /\ lp = LPModule(lp_config, StartPrice)
    /\ perp_config = CHOOSE c \in PerpConfigs : TRUE
    /\ perp = PerpModule
    /\ NoEngine
    /\ \E params \in RebalanceParams, dry_run \in BOOLEAN,
          liquidity \in Liquidities, a0 \in Allowances, a1 \in Allowances :
        call = [op |-> "execute_rebalance",
                args |-> <<params, [dry_run |-> dry_run,
                                    liquidity |-> liquidity,
                                    allowance0 |-> a0, allowance1 |-> a1]>>,
                ret |-> [pc |-> "start", sent |-> << >>, result |-> "none"],
                n |-> 0]

\* one step of the flow: its position, the transactions sent and the result
Flow(pc, sent, result) ==
    /\ call' = [call EXCEPT !.ret = [pc |-> pc, sent |-> sent,
                                     result |-> result],
                            !.n = @ + 1]
    /\ UNCHANGED <<lp_config, lp, perp_config, perp, engine_vars>>

\* Step 0: get_current_inventory, and the branch on current_liq > 0
RebalanceInventory ==
    /\ call.ret.pc = "start"
    /\ LET liq == call.args[2].liquidity
       IN  IF liq = Raises
           THEN Flow("raised", call.ret.sent, "none")
           ELSE IF liq > 0
           THEN Flow("decrease", call.ret.sent, "none")
           ELSE Flow("collect", call.ret.sent, "none")

\* Step 1: decreaseLiquidity
RebalanceDecrease ==
    /\ call.ret.pc = "decrease"
    /\ \E outcome \in TxOutcomes :
        LET ok == _send_transaction(call.args[2].dry_run, outcome)
            nx == after_transaction("decreaseLiquidity", ok)
        IN  Flow(nx.pc,
                 Append(call.ret.sent,
                        [name |-> "decreaseLiquidity",
                         data |-> decrease_data(call.args[1],
                                                call.args[2].liquidity),
                         ok |-> ok]),
                 nx.result)

\* Step 2: collect
RebalanceCollect ==
    /\ call.ret.pc = "collect"
    /\ \E outcome \in TxOutcomes :
        LET ok == _send_transaction(call.args[2].dry_run, outcome)
            nx == after_transaction("collect", ok)
        IN  Flow(nx.pc,
                 Append(call.ret.sent,
                        [name |-> "collect", data |-> collect_data(call.args[1]),
                         ok |-> ok]),
                 nx.result)

\* DirectLPController._ensure_approval for one token: nothing in a dry run,
\* an approve transaction when the allowance is below the amount; the value
\* it returns is not used by execute_rebalance
_ensure_approval(token_address, amount, allowance, next_pc) ==
    IF call.args[2].dry_run
    THEN Flow(next_pc, call.ret.sent, "none")
    ELSE IF allowance = Raises
    THEN Flow("raised", call.ret.sent, "none")
    ELSE IF allowance < amount
    THEN \E outcome \in TxOutcomes :
            Flow(next_pc,
                 Append(call.ret.sent,
                        [name |-> "Approve", data |-> <<token_address>>,
                         ok |-> _send_transaction(FALSE, outcome)]),
                 "none")
    ELSE Flow(next_pc, call.ret.sent, "none")

\* Step 3, approvals of token0 and of token1
RebalanceApprove ==
    \/ /\ call.ret.pc = "approve0"
       /\ _ensure_approval(call.args[1].token0_address,
                           call.args[1].amount0_desired,
                           call.args[2].allowance0, "approve1")
    \/ /\ call.ret.pc = "approve1"
       /\ _ensure_approval(call.args[1].token1_address,
                           call.args[1].amount1_desired,
                           call.args[2].allowance1, "mint")

\* Step 3: mint
RebalanceMint ==
    /\ call.ret.pc = "mint"
    /\ \E outcome \in TxOutcomes :
        LET ok == _send_transaction(call.args[2].dry_run, outcome)
            nx == after_transaction("mint", ok)
        IN  Flow(nx.pc,
                 Append(call.ret.sent,
                        [name |-> "mint", data |-> mint_data(call.args[1]),
                         ok |-> ok]),
                 nx.result)

NextRebalance ==
    \/ RebalanceInventory
    \/ RebalanceDecrease
    \/ RebalanceCollect
    \/ RebalanceApprove
    \/ RebalanceMint

SpecRebalance == InitRebalance /\ [][NextRebalance]_vars

\* the positions in sent of the transactions named decreaseLiquidity,
\* collect and mint
flow_transactions ==
    { i \in 1..Len(call.ret.sent) :
        call.ret.sent[i].name \in {"decreaseLiquidity", "collect", "mint"} }

\* C30: execute_rebalance sends decreaseLiquidity (not when the current
\* liquidity is 0), then collect, then mint; when one of them fails it
\* returns False at once and no transaction follows the failed one; it
\* returns True only if the mint was sent and succeeded.
C30_OrderedFailFast ==
    LET sent == call.ret.sent
        liq  == call.args[2].liquidity
    IN  /\ \A i \in flow_transactions, j \in flow_transactions :
              i < j =>
                 <<sent[i].name, sent[j].name>> \in
                    { <<"decreaseLiquidity", "collect">>,
                      <<"decreaseLiquidity", "mint">>,
                      <<"collect", "mint">> }
        /\ \A i \in flow_transactions :
              /\ sent[i].name = "decreaseLiquidity" => (liq # 0 /\ i = 1)
              /\ sent[i].name = "collect" =>
                    IF liq = 0 THEN i = 1
                    ELSE i = 2 /\ sent[1].name = "decreaseLiquidity"
              /\ sent[i].name = "mint" =>
                    \E j \in flow_transactions :
                        j < i /\ sent[j].name = "collect"
              /\ ~sent[i].ok =>
                    /\ i = Len(sent)
                    /\ call.ret.pc = "returned"
                    /\ call.ret.result = "False"
        /\ call.ret.result = "True" =>
              /\ sent # << >>
              /\ sent[Len(sent)].name = "mint"
              /\ sent[Len(sent)].ok
        /\ call.ret.pc = "returned" => call.ret.result \in {"True", "False"}

\* collect failed after decreaseLiquidity went through: False came back and
\* neither an approval nor the mint was sent
C30_Witness ==
    /\ call.ret.pc = "returned"
    /\ call.ret.result = "False"
    /\ Len(call.ret.sent) = 2
    /\ call.ret.sent[1].name = "decreaseLiquidity" /\ call.ret.sent[1].ok
    /\ call.ret.sent[2].name = "collect" /\ ~call.ret.sent[2].ok


-----------------------------------------------------------------------------
(* Specification SpecTimed: BacktestEngine.run on longer feeds with rows     *)
(* 1h, 4h, 5h and 1d apart, in pools whose daily volume is 12 times the      *)
(* value locked, so that the fee of a tick in range equals the position      *)

TimedSteps == {60, 60 * 4, 60 * 5, 60 * 24}

TimedFeeds(prices, step) ==
    UNION { { [i \in 1..n |->
                  [date |-> FeedStart + (i - 1) * step, close |-> f[i]]]
              : f \in [1..n -> prices] }
            : n \in 0..MaxTimedTicks }

\* run called without harvest_config and cross_rebalance_config, with an
\* execution_interval_min of 1 minute, 8 hours and 2000 minutes
TimedRunConfigs ==
    { [c EXCEPT !.execution_interval_min = x,
                !.withdraw_enabled = FALSE,
                !.cap_rebal_enabled = FALSE] :
        c \in RunConfigs, x \in {1, 60 * 8, 2000} }

InitTimed ==
    /\ \E s \in EngineSetups :
        /\ lp_config = [EngineLPConfig(s) EXCEPT
                          !.daily_volume = RMul(Q(12, 1), s.pool_tvl)]
        /\ perp_config = EnginePerpConfig(s)
        /\ lp = LPModule(lp_config, s.start_price)
        /\ \E step \in TimedSteps : feed \in TimedFeeds(s.prices, step)
    /\ perp = PerpModule
    /\ \E perp_capital \in PerpCapitals :
        portfolio =
            allocate_to_lp(
                PortfolioModule(RAdd(lp_config.initial_capital, perp_capital)),
                lp_config.initial_capital)
    /\ engine = BacktestEngine(lp_config)
    /\ run_config \in TimedRunConfigs
    /\ run = [NoRun EXCEPT !.pc = "start"]
    /\ call = NoCall

NextTimed ==
    \/ RunStart
    \/ RunMarkToMarket
    \/ RunCollectFee
    \/ RunRebalance
    \/ RunHedge
    \/ RunRescue
    \/ RunRetry
    \/ RunSweep
    \/ RunHarvest
    \/ RunFunding
    \/ RunSnapshot

SpecTimed == InitTimed /\ [][NextTimed]_vars


\* the row of tick i carries the event tag
row_has_event(i, tag) ==
    \E k \in 1..Len(run.history[i].event) : run.history[i].event[k][1] = tag

\* the time of the last settlement at or before tick i when funding is
\* settled at the first tick 8 hours or more after the previous settlement,
\* counting from the first tick
RECURSIVE last_settlement(_)
last_settlement(i) ==
    IF i = 1 THEN feed[1].date
    ELSE IF (feed[i].date - last_settlement(i - 1)) * 60 >= 8 * 3600
         THEN feed[i].date
         ELSE last_settlement(i - 1)

\* C31: funding is settled on a tick if and only if at least 8 hours of
\* simulated time have passed since the previous settlement (or since the
\* first tick): a funding payment appears only on such a tick, a tick on
\* which a short is open at such a time carries the payment, and two
\* payments are at least 8 hours apart.
C31_FundingEveryEightHours ==
    LET n == Len(run.history)
        due(i) == i > 1 /\ last_settlement(i) = feed[i].date
    IN  /\ \A i \in 1..n :
              /\ row_has_event(i, "FUNDING_PAYMENT") => due(i)
              /\ (due(i) /\ RGt(run.history[i].perp_size, Zero)) =>
                    row_has_event(i, "FUNDING_PAYMENT")
        /\ \A i \in 1..n, j \in 1..n :
              ( /\ i < j
                /\ row_has_event(i, "FUNDING_PAYMENT")
                /\ row_has_event(j, "FUNDING_PAYMENT") ) =>
                 (feed[j].date - feed[i].date) * 60 >= 8 * 3600

\* rows 5 hours apart: the short open since the first tick was settled on
\* the third tick, 10 hours in, and not on the second or the fourth
C31_Witness ==
    /\ Len(run.history) = 4
    /\ feed[2].date - feed[1].date = 60 * 5
    /\ \A i \in 1..4 : RGt(run.history[i].perp_size, Zero)
    /\ row_has_event(3, "FUNDING_PAYMENT")
    /\ ~row_has_event(2, "FUNDING_PAYMENT")
    /\ ~row_has_event(4, "FUNDING_PAYMENT")


\* the tick i is an executing tick: the first tick is, and a later tick is
\* when it is at least execution_interval_min minutes after the previous
\* executing tick
RECURSIVE last_executing(_)
last_executing(i) ==
    IF i = 1 THEN feed[1].date
    ELSE IF feed[i].date - last_executing(i - 1)
               >= run_config.execution_interval_min
         THEN feed[i].date
         ELSE last_executing(i - 1)

\* C32: the LP rebalance check and the hedge orders run only on ticks that
\* are at least execution_interval_min minutes after the previous executing
\* tick, and on the first tick; the price of every tick is marked on the LP
\* and on the hedge and the LP fee of every tick is accrued, on executing
\* ticks and on the others.
C32_ExecutionGated ==
    [][LET executing == last_executing(run.i) = current_time
           in_range == /\ RLt(lp.range_lower, lp.current_price)
                       /\ RLt(lp.current_price, lp.range_upper)
       IN  /\ run'.pc \in {"hedge", "rescue", "retry"} => executing
           /\ ( \/ lp'.rebalance_count # lp.rebalance_count
                \/ get_short_position_size(perp') #
                      get_short_position_size(perp)
                \/ engine' # engine ) => executing
           /\ (run.pc = "rebalance" /\ run.i = 1) => run'.pc = "hedge"
           /\ (run.pc = "rebalance" /\ executing) => run'.pc = "hedge"
           /\ run'.pc = "fee" =>
                 /\ run.pc = "mark"
                 /\ lp'.current_price = current_price
                 /\ perp'.current_market_price = current_price
           /\ run'.pc = "rebalance" =>
                 /\ run.pc = "fee"
                 /\ in_range =>
                       /\ RGt(lp'.accumulated_fees, lp.accumulated_fees)
                       /\ portfolio'.ledgers["REVENUE_LP_FEE"] =
                             RAdd(portfolio.ledgers["REVENUE_LP_FEE"],
                                  RSub(lp'.accumulated_fees,
                                       lp.accumulated_fees))]_vars

\* rows one day apart under an interval of 2000 minutes: the second tick
\* accrued its fee and marked its price without a rebalance check or an
\* order, the third tick executed again
C32_Witness ==
    /\ run_config.execution_interval_min = 2000
    /\ Len(run.history) = 3
    /\ feed[2].date - feed[1].date = 60 * 24
    /\ run.history[2].event = << >>
    /\ run.history[2].price = feed[2].close
    /\ RGt(run.history[2].total_fees_collected,
           run.history[1].total_fees_collected)
    /\ run.history[3].event # << >>
    /\ run.last_execution_time = feed[3].date


\* the price has pierced the bounds of the LP position
pierced(m) ==
    \/ RLe(m.current_price, m.range_lower)
    \/ RGe(m.current_price, m.range_upper)

\* C33: after an LP rebalance no further LP rebalance is triggered until the
\* post-rebalance cooldown has elapsed, whatever the price path (with a
\* cooldown of one tick or more: not on the tick that follows a rebalance);
\* outside the cooldown a price that has pierced the bounds triggers a
\* rebalance at the next rebalance check.
C33_RebalanceCooldown ==
    [][LET cooling == run.i > 1 /\ row_has_event(run.i - 1, "LP_REBALANCE")
           checked == run.pc = "rebalance" /\ run'.pc = "hedge"
       IN  /\ (run.pc = "rebalance" /\ cooling) =>
                 lp'.rebalance_count = lp.rebalance_count
           /\ (checked /\ ~cooling /\ pierced(lp)) =>
                 lp'.rebalance_count = lp.rebalance_count + 1]_vars

\* the part of C33 that the code keeps: a pierced price rebalances at the
\* next check
PiercedRebalances ==
    [][(run.pc = "rebalance" /\ run'.pc = "hedge" /\ pierced(lp)) =>
          lp'.rebalance_count = lp.rebalance_count + 1]_vars


\* C34: an order returned by generate_orders has as target size the LP
\* inventory when the effective signal is -1 and 0 otherwise; its action is
\* HEDGE_ON exactly for a flip from no hedge to a positive target, HEDGE_OFF
\* exactly for a flip from a positive hedge to a zero target, and
\* ADJUST_HEDGE exactly for a resize that is no flip.
C34_OrderTargetAndAction ==
    (call.op = "generate_orders" /\ call.ret # << >>) =>
        LET tick == call.args[1]
            config == call.args[2]
            order == call.ret[1]
            current == get_short_position_size(perp)
            effective ==
                IF /\ tick.signal = 1
                   /\ RLe(tick.pct_change, RNeg(config.safety_net_pct))
                THEN -1 ELSE tick.signal
            flip_on == current = Zero /\ RGt(order.target_size, Zero)
            flip_off == RGt(current, Zero) /\ order.target_size = Zero
        IN  /\ order.target_size =
                  IF effective = -1 THEN get_eth_inventory(lp) ELSE Zero
            /\ order.action \in {"HEDGE_ON", "HEDGE_OFF", "ADJUST_HEDGE"}
            /\ order.action = "HEDGE_ON" <=> flip_on
            /\ order.action = "HEDGE_OFF" <=> flip_off
            /\ order.action = "ADJUST_HEDGE" <=>
                  ( /\ ~flip_on /\ ~flip_off
                    /\ order.target_size # current )

\* a short of 60 against an inventory of 75 under signal -1: the order
\* resizes the hedge to 75
C34_Witness ==
    /\ call.op = "generate_orders"
    /\ call.ret # << >>
    /\ call.ret[1].action = "ADJUST_HEDGE"
    /\ call.ret[1].reason = "Threshold Drift"
    /\ RGt(get_short_position_size(perp), Zero)
    /\ RGt(call.ret[1].target_size, get_short_position_size(perp))


\* the step executed an order that reduced or closed the short
hedge_reduced ==
    /\ run.pc \in {"hedge", "retry"}
    /\ Len(run'.current_events) = Len(run.current_events) + 1
    /\ run'.current_events[Len(run'.current_events)][1] \in
          {"HEDGE_DEC", "HEDGE_OFF"}

\* C35: when the engine executes a hedge decrease or a full close, the
\* realized PnL credited to the wallet equals the drop in the hedge's
\* unrealized PnL caused by the close, so net equity changes across the
\* order by exactly minus the trading fee.
C35_CloseKeepsEquity ==
    [][hedge_reduced =>
          LET fee == RSub(perp'.total_trading_fees, perp.total_trading_fees)
              drop == RSub(get_total_unrealized_pnl(perp),
                           get_total_unrealized_pnl(perp'))
              credited == RAdd(RSub(cex_wallet_balance(portfolio'),
                                    cex_wallet_balance(portfolio)), fee)
              equity(pf, m, pm) ==
                  get_net_equity(pf, m.position_value,
                                 get_total_unrealized_pnl(pm))
          IN  /\ credited = drop
              /\ equity(portfolio', lp', perp') =
                    RSub(equity(portfolio, lp, perp), fee)]_vars

\* the part of C35 that the code keeps: the fee of the close is charged to
\* the wallet and nothing else moves it
CloseChargesFee ==
    [][hedge_reduced =>
          cex_wallet_balance(portfolio') =
              RSub(cex_wallet_balance(portfolio),
                   RSub(perp'.total_trading_fees, perp.total_trading_fees))]_vars


-----------------------------------------------------------------------------
(* Specification SpecLong: the runs of Spec on feeds of one more row, where  *)
(* a sweep or a harvest comes between two orders                             *)

LongFeeds(prices, step) ==
    UNION { { [i \in 1..n |->
                  [date |-> FeedStart + (i - 1) * step, close |-> f[i]]]
              : f \in [1..n -> prices] }
            : n \in 0..MaxLongTicks }

InitLong ==
    /\ \E s \in EngineSetups :
        /\ lp_config = EngineLPConfig(s)
        /\ perp_config = EnginePerpConfig(s)
        /\ lp = LPModule(lp_config, s.start_price)
        /\ \E step \in TickSteps : feed \in LongFeeds(s.prices, step)
    /\ perp = PerpModule
    /\ \E perp_capital \in PerpCapitals :
        portfolio =
            allocate_to_lp(
                PortfolioModule(RAdd(lp_config.initial_capital, perp_capital)),
                lp_config.initial_capital)
    /\ engine = BacktestEngine(lp_config)
    /\ run_config \in RunConfigs
    /\ run = [NoRun EXCEPT !.pc = "start"]
    /\ call = NoCall

NextLong ==
    \/ RunStart
    \/ RunMarkToMarket
    \/ RunCollectFee
    \/ RunRebalance
    \/ RunHedge
    \/ RunRescue
    \/ RunRetry
    \/ RunSweep
    \/ RunHarvest
    \/ RunFunding
    \/ RunSnapshot

SpecLong == InitLong /\ [][NextLong]_vars

\* the order that the step of run tries, if it tries one
tried_order ==
    IF run.pc = "retry" THEN << run.order >>
    ELSE IF run.pc = "hedge"
    THEN generate_orders(
             current_tick(feed, run.i, run_config.strategy_config),
             run_config.strategy_config, lp, perp)
    ELSE << >>

\* C36: after the engine accepts a HEDGE_ON or ADJUST_HEDGE order the short
\* position size equals the order's target size, after an accepted HEDGE_OFF
\* it is zero, and the hedge counter rises by exactly one per accepted order
\* (and by nothing else).
C36_AcceptedReachesTarget ==
    [][LET accepted ==
               /\ tried_order # << >>
               /\ ~execute_raises(TheWorld, perp_config, tried_order[1])
           order == tried_order[1]
       IN  /\ accepted =>
                 /\ order.action \in {"HEDGE_ON", "ADJUST_HEDGE"} =>
                       get_short_position_size(perp') = order.target_size
                 /\ order.action = "HEDGE_OFF" =>
                       get_short_position_size(perp') = Zero
                 /\ engine'.hedge_count = engine.hedge_count + 1
           /\ ~accepted => engine'.hedge_count = engine.hedge_count]_vars

\* an ADJUST_HEDGE order that reduced an open short to its target, the
\* second order accepted in the run
C36_Witness ==
    /\ run.pc = "sweep"
    /\ run.current_events # << >>
    /\ run.current_events[Len(run.current_events)][1] = "HEDGE_DEC"
    /\ engine.hedge_count >= 2
    /\ get_short_position_size(perp) = get_eth_inventory(lp)
    /\ RGt(get_short_position_size(perp), Zero)

-----------------------------------------------------------------------------
(* Adding to a position, checked under SpecPerp                              *)

\* the step is an accepted open_position that adds to a position already
\* held on the order's side
adds_to_position ==
    /\ call'.n = call.n + 1
    /\ call'.op = "open_position"
    /\ ~call'.ret.raised
    /\ call'.args[1] \in DOMAIN perp.positions

\* C37: an accepted open_position that adds to an existing position at the
\* current market price sets the entry price to the size-weighted average of
\* the old entry price and the current price, and leaves the total
\* unrealized PnL equal to its value just before the call.
C37_AddKeepsUnrealizedPnl ==
    [][adds_to_position =>
          LET side == call'.args[1]
              add == call'.args[2]
              old == perp.positions[side]
              new == perp'.positions[side]
          IN  /\ new.size = RAdd(old.size, add)
              /\ RMul(new.entry_price, new.size) =
                     RAdd(RMul(old.entry_price, old.size),
                          RMul(perp.current_market_price, add))
              /\ get_total_unrealized_pnl(perp') =
                     get_total_unrealized_pnl(perp)]_vars

\* a short first opened at one price and enlarged at another: the entry
\* price lies strictly between the two and the position carries a loss
C37_Witness ==
    /\ call.op = "open_position"
    /\ ~call.ret.raised
    /\ call.args[1] = "SHORT"
    /\ "SHORT" \in DOMAIN perp.positions
    /\ RGt(perp.positions["SHORT"].size, call.args[2])
    /\ RLt(perp.positions["SHORT"].entry_price, perp.current_market_price)
    /\ RLt(get_total_unrealized_pnl(perp), Zero)

-----------------------------------------------------------------------------
(* Specification SpecRescue: the engine with a cheaper LP rebalance          *)
(* (slippage 1/8), so that the LP profit covers a whole margin deficit       *)

RescueLPConfig(s) == [EngineLPConfig(s) EXCEPT !.slippage = Q(1, 8)]
RescueCapitals == {Q(64, 1), Q(96, 1), Q(128, 1)}

InitRescue ==
    /\ \E s \in EngineSetups :
        /\ lp_config = RescueLPConfig(s)
        /\ perp_config = EnginePerpConfig(s)
        /\ lp = LPModule(lp_config, s.start_price)
        /\ \E step \in TickSteps : feed \in Feeds(s.prices, step)
    /\ perp = PerpModule
    /\ \E perp_capital \in RescueCapitals :
        portfolio =
            allocate_to_lp(
                PortfolioModule(RAdd(lp_config.initial_capital, perp_capital)),
                lp_config.initial_capital)
    /\ engine = BacktestEngine(lp_config)
    /\ run_config \in RunConfigs
    /\ run = [NoRun EXCEPT !.pc = "start"]
    /\ call = NoCall

NextRescue ==
    \/ RunStart
    \/ RunMarkToMarket
    \/ RunCollectFee
    \/ RunRebalance
    \/ RunHedge
    \/ RunRescue
    \/ RunRetry
    \/ RunSweep
    \/ RunHarvest
    \/ RunFunding
    \/ RunSnapshot

SpecRescue == InitRescue /\ [][NextRescue]_vars

-----------------------------------------------------------------------------
(* The retry after a rescue, checked under SpecRescue                        *)

\* _attempt_rescue, line 240: the deficit plus safety buffer of the order
\* the engine is rescuing
full_deficit ==
    RAdd(RSub(margin_needed(TheWorld, perp_config, run.order, current_price),
              get_margin_snapshot(perp, perp_config, portfolio).available),
         SafetyBuffer)

\* the step is a rescue that moves the whole deficit plus buffer out of the
\* LP (the profit limit did not cap it)
full_rescue ==
    /\ rescue_transfer
    /\ RSub(lp.position_value, lp'.position_value) = full_deficit

\* C38: after an emergency rescue that transfers the full deficit plus
\* safety buffer, the single retry of the order is accepted.
C38_FullRescueRetryAccepted ==
    [][full_rescue =>
          /\ run'.pc = "retry"
          /\ ~execute_raises(World(lp', perp', portfolio', engine',
                                   run'.current_events),
                             perp_config, run'.order)]_vars

\* every rescue leaves the exchange wallet as it found it, so the retry
\* meets the margin the first attempt met
RescueLeavesWallet ==
    [][rescue_transfer =>
          /\ cex_wallet_balance(portfolio') = cex_wallet_balance(portfolio)
          /\ execute_raises(World(lp', perp', portfolio', engine',
                                  run'.current_events),
                            perp_config, run'.order)]_vars

-----------------------------------------------------------------------------
(* Approvals before the mint, checked under SpecRebalance                    *)

\* the positions in sent of the approve transactions that came back failed
failed_approvals ==
    { i \in 1..Len(call.ret.sent) :
        call.ret.sent[i].name = "Approve" /\ ~call.ret.sent[i].ok }

\* C39: in live mode a failed approval transaction stops execute_rebalance
\* with result False and no mint transaction is sent: the mint goes out only
\* after the approvals of both tokens have succeeded.
C39_FailedApprovalStopsFlow ==
    (~call.args[2].dry_run /\ failed_approvals # {}) =>
        /\ call.ret.pc = "returned"
        /\ call.ret.result = "False"
        /\ \A j \in 1..Len(call.ret.sent) : call.ret.sent[j].name # "mint"

\* what the flow does keep: no approve transaction follows the mint, and in
\* a dry run none is sent
ApprovalsPrecedeMint ==
    /\ \A i, j \in 1..Len(call.ret.sent) :
          (call.ret.sent[i].name = "Approve" /\ call.ret.sent[j].name = "mint")
              => i < j
    /\ call.args[2].dry_run =>
          \A i \in 1..Len(call.ret.sent) : call.ret.sent[i].name # "Approve"

=============================================================================
